---- MODULE Spec2Model ----
(***************************************************************************)
(* Pitch-by-pitch CSV aggregation scripts: the per-row aggregation loops,  *)
(* win/loss assignment, derived pitching metrics, the directory batch      *)
(* loops and the plate-appearance dedup of the batting aggregators.        *)
(*                                                                         *)
(* The per-pitch-type velocity, movement and zone statistics are left out.  *)
(*                                                                         *)
(* Numeric CSV cells are kept as the text of the cell ("", "2", "x") and   *)
(* converted by each script's own conversion.  Python floats that are      *)
(* quotients of integers are kept as fractions <<numerator, denominator>>. *)
(***************************************************************************)
EXTENDS Integers, Sequences, FiniteSets, TLC

VARIABLES
    script,               \* which script runs
    pc,                   \* position of the script's main
    data,                 \* rows of the CSV consumed so far by the row loop
    pitchers,             \* pitcher name -> stats record
    team_runs,            \* batter team code -> runs
    pitcher_teams,        \* pitcher name -> team code
    current_batter,       \* pitcher name -> batter last faced
    first_three_pitches,  \* <<pitcher, batter>> -> list of <<pitch_call, strikes>>
    csv_files,            \* directory mode: files found, in processing order
    all_pitchers,         \* directory mode: merged pitcher name -> stats
    files_processed,
    files_skipped,
    files_excluded,
    all_data,             \* read_csv_directory / combine_csv_files: files taken
    players,              \* batting: batter name -> stats record
    plate_appearances     \* batting: set of plate-appearance identifiers

vars == <<script, pc, data, pitchers, team_runs, pitcher_teams, current_batter,
          first_three_pitches, csv_files, all_pitchers, files_processed,
          files_skipped, files_excluded, all_data, players, plate_appearances>>

pitchVars == <<pitchers, team_runs, pitcher_teams, current_batter, first_three_pitches>>
dirVars == <<csv_files, all_pitchers, files_processed, files_skipped, files_excluded, all_data>>
batVars == <<players, plate_appearances>>

-----------------------------------------------------------------------------
\* Bounds of the model.
MaxRows == 3
MaxFiles == 3
MaxPitches == 5

\* The scripts.
PPR == "PitchingProcessRecursive"
PSC == "pitchingStatsConverter"
PLSC == "playerStatsConverter"
SC == "statsConverter"
SCR == "statsConverterRecursive"
MPG == "MegaPG"

-----------------------------------------------------------------------------
\* Dictionaries.
EmptyMap == [k \in {} |-> 0]
Put(f, k, v) == [x \in (DOMAIN f) \cup {k} |-> IF x = k THEN v ELSE f[x]]
Get(f, k, default) == IF k \in DOMAIN f THEN f[k] ELSE default

\* Fractions.
Zero == <<0, 1>>
FracEq(a, b) == a[1] * b[2] = b[1] * a[2]
FracAdd(a, b) == <<a[1] * b[2] + b[1] * a[2], a[2] * b[2]>>
FracDiv(a, b) == <<a[1] * b[2], a[2] * b[1]>>
FracSub(a, b) == <<a[1] * b[2] - b[1] * a[2], a[2] * b[2]>>
FracPos(a) == a[1] > 0

-----------------------------------------------------------------------------
\* Conversion of a numeric cell.
IntText == [t \in {"0", "1", "2", "3", "4", "5"} |->
              CASE t = "0" -> 0 [] t = "1" -> 1 [] t = "2" -> 2
                [] t = "3" -> 3 [] t = "4" -> 4 [] t = "5" -> 5]
FloatText == IntText @@ [t \in {"-6", "-5", "-4"} |->
              CASE t = "-6" -> -6 [] t = "-5" -> -5 [] t = "-4" -> -4]

\* Plate locations in feet, as fractions; the token of sixteen sixes is the
\* decimal text of 1.7 + 1.7 / 3.
PlateText == [t \in {"-0.7085", "0", "0.7085", "1", "1.7", "2", "2.2666666666666666",
                     "2.5", "3", "3.4", "3.5"} |->
                CASE t = "-0.7085" -> <<-7085, 10000>> [] t = "0" -> <<0, 1>>
                  [] t = "0.7085" -> <<7085, 10000>> [] t = "1" -> <<1, 1>>
                  [] t = "1.7" -> <<17, 10>> [] t = "2" -> <<2, 1>>
                  [] t = "2.2666666666666666" -> <<34, 15>>
                  [] t = "2.5" -> <<5, 2>> [] t = "3" -> <<3, 1>>
                  [] t = "3.4" -> <<34, 10>> [] t = "3.5" -> <<7, 2>>]

Ok(v) == [ok |-> TRUE, val |-> v]
ValueError == [ok |-> FALSE, val |-> 0]

\* int(row.get(k, 0)) if row.get(k, '') else 0
IntOrZeroIfBlank(t) ==
    IF t = "" THEN Ok(0)
    ELSE IF t \in DOMAIN IntText THEN Ok(IntText[t]) ELSE ValueError

\* int(row[k]) if k in row else 0
IntOfCell(t) == IF t \in DOMAIN IntText THEN Ok(IntText[t]) ELSE ValueError

parse_int(s, t) == IF s = PPR THEN IntOrZeroIfBlank(t) ELSE IntOfCell(t)

\* safe_float: blank or malformed text gives 0.0
safe_float(t) == IF t \in DOMAIN FloatText THEN Ok(FloatText[t]) ELSE Ok(0)

\* float(row[k]) if k in row else 0
FloatOfCell(t) == IF t \in DOMAIN FloatText THEN Ok(FloatText[t]) ELSE ValueError

parse_float(s, t) == IF s = PSC THEN safe_float(t) ELSE FloatOfCell(t)

\* PlateLocSide and PlateLocHeight: safe_float in pitchingStatsConverter,
\* float in playerStatsConverter.
plate_loc(s, t) ==
    IF t \in DOMAIN PlateText THEN Ok(PlateText[t])
    ELSE IF s = PSC THEN Ok(Zero) ELSE ValueError

\* The numeric cells a script converts at the top of the row loop; PPR does
\* not read measurements.
parse_row(s, row) ==
    LET rs == parse_int(s, row.RunsScored)
        oo == parse_int(s, row.OutsOnPlay)
        pp == parse_int(s, row.PitchofPA)
        st == parse_int(s, row.Strikes)
        bl == parse_int(s, row.Balls)
        va == IF s = PPR THEN Ok(0) ELSE parse_float(s, row.VertApprAngle)
        ls == IF s = PPR THEN Ok(Zero) ELSE plate_loc(s, row.PlateLocSide)
        lh == IF s = PPR THEN Ok(Zero) ELSE plate_loc(s, row.PlateLocHeight)
    IN [ok |-> rs.ok /\ oo.ok /\ pp.ok /\ st.ok /\ bl.ok /\ va.ok /\ ls.ok /\ lh.ok,
        runs_scored |-> rs.val, outs_on_play |-> oo.val, pitch_of_pa |-> pp.val,
        strikes |-> st.val, balls |-> bl.val, vert_appr_angle |-> va.val,
        plate_loc_side |-> ls.val, plate_loc_height |-> lh.val]

-----------------------------------------------------------------------------
\* The pitching aggregation loop (calculate_pitching_stats), one row at a time.

\* FBnVAA is (median - mean) / stdev of the fastball angles, kept as the
\* fraction dev = median - mean and the fraction var = stdev^2.
NoFBnVAA == [dev |-> Zero, var |-> <<1, 1>>]

InitialStats ==
    [EarnedRuns |-> 0, InningsPitched |-> Zero, OutsRecorded |-> 0, ERA |-> Zero,
     Wins |-> 0, Losses |-> 0, Strikeouts |-> 0, Walks |-> 0,
     TotalBattersFaced |-> 0, FirstPitchStrikes |-> 0, FirstPitchBalls |-> 0,
     TotalPitches |-> 0, Strikes |-> 0, Balls |-> 0, HitBatters |-> 0,
     FoulsAfter2Strikes |-> 0, First2of3StrikesOrInPlay |-> 0,
     AtBatEfficiency |-> 0, HomeRuns |-> 0, FIP |-> Zero]

\* pitchingStatsConverter and playerStatsConverter also keep the fastball angles.
InitialStatsFB ==
    InitialStats @@ [FBVertApprAngles |-> <<>>, FBnVAA |-> NoFBnVAA,
                     IZPitches |-> 0, OZPitches |-> 0, UpperZonePitches |-> 0,
                     MidZonePitches |-> 0, LowerZonePitches |-> 0]

initial_stats(s) == IF s = PPR THEN InitialStats ELSE InitialStatsFB

StrikeCalls == {"StrikeCalled", "StrikeSwinging", "InPlay"}
BallCalls == {"BallCalled", "BallinDirt", "BallIntentional"}
FirstPitchStrikeCalls == {"StrikeCalled", "StrikeSwinging", "FoulBall", "InPlay"}
FirstPitchBallCalls == {"BallCalled", "BallinDirt", "BallIntentional", "HitByPitch"}
FastballTypes == {"Fastball", "FourSeamFastBall", "TwoSeamFastBall"}
AtBatResults == {"Single", "Double", "Triple", "HomeRun", "Error", "FieldersChoice", "Out"}

\* if not pitcher_name or not batter_name: continue   (PitchingProcessRecursive only)
skips_row(s, row) == s = PPR /\ (row.Pitcher = "" \/ row.Batter = "")

\* Variant without the two-strike rule: every foul is a strike.
foul_always_strike(strikes, tagged_hit_type) == TRUE

foul_is_strike(strikes, tagged_hit_type) ==
    strikes < 2 \/ (strikes = 2 /\ tagged_hit_type = "Bunt")

\* Variant in which every foul is a strike, whatever the count.
strikes_every_foul(pitch_call, strikes, tagged_hit_type) ==
    IF pitch_call \in StrikeCalls \/ pitch_call = "FoulBall" THEN 1 ELSE 0

strikes_inc(pitch_call, strikes, tagged_hit_type) ==
    IF pitch_call \in StrikeCalls THEN 1
    ELSE IF pitch_call = "FoulBall" /\ foul_is_strike(strikes, tagged_hit_type) THEN 1
    ELSE 0

fouls_after_2_inc(pitch_call, strikes, tagged_hit_type) ==
    IF pitch_call \notin StrikeCalls /\ pitch_call = "FoulBall"
       /\ ~foul_is_strike(strikes, tagged_hit_type)
       /\ strikes = 2 /\ tagged_hit_type # "Bunt" THEN 1
    ELSE 0

balls_inc(pitch_call) ==
    IF pitch_call \notin StrikeCalls /\ pitch_call # "FoulBall" /\ pitch_call \in BallCalls
    THEN 1 ELSE 0

hit_batters_inc(pitch_call) ==
    IF pitch_call \notin StrikeCalls /\ pitch_call # "FoulBall"
       /\ pitch_call \notin BallCalls /\ pitch_call = "HitByPitch"
    THEN 1 ELSE 0

\* Variant without the implicit out of a strikeout.
outs_on_play_only(outs_on_play, korbb) == outs_on_play

earned_runs_inc(play_result, runs_scored) == IF play_result # "Error" THEN runs_scored ELSE 0

outs_inc(outs_on_play, korbb) == outs_on_play + (IF korbb = "Strikeout" THEN 1 ELSE 0)

strikeouts_inc(korbb) == IF korbb = "Strikeout" THEN 1 ELSE 0

walks_inc(korbb) == IF korbb # "Strikeout" /\ korbb = "Walk" THEN 1 ELSE 0

home_runs_inc(play_result) == IF play_result = "HomeRun" THEN 1 ELSE 0

\* Variant whose bands leave out their lower edges.
zone_of_open_bands(side, height) ==
    LET le(a, b) == a[1] * b[2] <= b[1] * a[2]
        lt(a, b) == a[1] * b[2] < b[1] * a[2]
    IN IF ~(/\ le(<<-7085, 10000>>, side) /\ le(side, <<7085, 10000>>)
            /\ le(<<17, 10>>, height) /\ le(height, <<34, 10>>)) THEN "out"
       ELSE IF lt(<<17, 6>>, height) THEN "upper"
       ELSE IF lt(<<34, 15>>, height) /\ le(height, <<17, 6>>) THEN "mid"
       ELSE IF lt(<<17, 10>>, height) /\ le(height, <<34, 15>>) THEN "lower"
       ELSE "none"

\* STRIKE_ZONE and its thirds: out of the zone, or the first band of upper,
\* mid, lower that holds the height; "none" if no band does.
zone_of(side, height) ==
    LET le(a, b) == a[1] * b[2] <= b[1] * a[2]
        side_min == <<-7085, 10000>>
        side_max == <<7085, 10000>>
        height_min == <<17, 10>>
        height_max == <<34, 10>>
        zone_height == FracSub(height_max, height_min)
        upper_min == FracAdd(height_min, FracDiv(<<2 * zone_height[1], zone_height[2]>>, <<3, 1>>))
        mid_min == FracAdd(height_min, FracDiv(zone_height, <<3, 1>>))
    IN IF ~(/\ le(side_min, side) /\ le(side, side_max)
            /\ le(height_min, height) /\ le(height, height_max)) THEN "out"
       ELSE IF le(upper_min, height) /\ le(height, height_max) THEN "upper"
       ELSE IF le(mid_min, height) /\ le(height, upper_min) THEN "mid"
       ELSE IF le(height_min, height) /\ le(height, mid_min) THEN "lower"
       ELSE "none"

\* Variant that counts every row as a new batter.
batters_faced_every_row(current, batter_name) == 1

\* if current_batter[pitcher_name] != batter_name: TotalBattersFaced += 1
batters_faced_inc(current, batter_name) == IF current # batter_name THEN 1 ELSE 0

\* Variant that counts a strike-like call on any pitch of the plate appearance.
strike_on_any_pitch(pitch_of_pa, pitch_call) ==
    IF pitch_call \in FirstPitchStrikeCalls THEN 1 ELSE 0

first_pitch_strikes_inc(pitch_of_pa, pitch_call) ==
    IF pitch_of_pa = 1 /\ pitch_call \in FirstPitchStrikeCalls THEN 1 ELSE 0

first_pitch_balls_inc(pitch_of_pa, pitch_call) ==
    IF pitch_of_pa = 1 /\ pitch_call \in FirstPitchBallCalls THEN 1 ELSE 0

at_bat_efficiency_inc(play_result, pitch_of_pa) ==
    IF play_result \in AtBatResults /\ play_result # "Sacrifice" /\ pitch_of_pa <= 4
    THEN 1 ELSE 0

\* The list kept for the pitcher-batter pair after this row's reset and append.
\* Variant without the reset on the first pitch of a plate appearance.
first_three_never_reset(old, pitch_of_pa, pitch_call, strikes) ==
    IF pitch_of_pa <= 3 THEN Append(old, <<pitch_call, strikes>>) ELSE old

first_three_after(old, pitch_of_pa, pitch_call, strikes) ==
    LET l0 == IF pitch_of_pa = 1 THEN <<>> ELSE old
    IN IF pitch_of_pa <= 3 THEN Append(l0, <<pitch_call, strikes>>) ELSE l0

\* strike_count over the stored pitches; the hit type is the current row's.
strike_count(first_three, tagged_hit_type) ==
    Cardinality({i \in 1..Len(first_three) :
        strikes_inc(first_three[i][1], first_three[i][2], tagged_hit_type) = 1})

first_2_of_3_inc(first_three, pitch_of_pa, tagged_hit_type) ==
    IF pitch_of_pa = 3 /\ strike_count(first_three, tagged_hit_type) >= 2 THEN 1 ELSE 0

\* The aggregator's local dictionaries, as one value.
NewAgg == [pitchers |-> EmptyMap, team_runs |-> EmptyMap, pitcher_teams |-> EmptyMap,
           current_batter |-> EmptyMap, first_three_pitches |-> EmptyMap]

\* One iteration of the row loop on a row whose cells converted (v) and that
\* is not skipped.
aggregate_row(s, a, row, v) ==
    LET p == row.Pitcher
        b == row.Batter
        old == Get(a.pitchers, p, initial_stats(s))
        cur == Get(a.current_batter, p, "")
        key == <<p, b>>
        ft == first_three_after(Get(a.first_three_pitches, key, <<>>),
                                v.pitch_of_pa, row.PitchCall, v.strikes)
        common == [old EXCEPT
            !.EarnedRuns = @ + earned_runs_inc(row.PlayResult, v.runs_scored),
            !.OutsRecorded = @ + outs_inc(v.outs_on_play, row.KorBB),
            !.Strikeouts = @ + strikeouts_inc(row.KorBB),
            !.Walks = @ + walks_inc(row.KorBB),
            !.TotalBattersFaced = @ + batters_faced_inc(cur, b),
            !.FirstPitchStrikes = @ + first_pitch_strikes_inc(v.pitch_of_pa, row.PitchCall),
            !.FirstPitchBalls = @ + first_pitch_balls_inc(v.pitch_of_pa, row.PitchCall),
            !.TotalPitches = @ + 1,
            !.Strikes = @ + strikes_inc(row.PitchCall, v.strikes, row.TaggedHitType),
            !.FoulsAfter2Strikes =
                @ + fouls_after_2_inc(row.PitchCall, v.strikes, row.TaggedHitType),
            !.Balls = @ + balls_inc(row.PitchCall),
            !.HitBatters = @ + hit_batters_inc(row.PitchCall),
            !.HomeRuns = @ + home_runs_inc(row.PlayResult),
            !.First2of3StrikesOrInPlay =
                @ + first_2_of_3_inc(ft, v.pitch_of_pa, row.TaggedHitType),
            !.AtBatEfficiency = @ + at_bat_efficiency_inc(row.PlayResult, v.pitch_of_pa)]
        fb == IF s # PPR /\ row.TaggedPitchType \in FastballTypes
              THEN [common EXCEPT
                      !.FBVertApprAngles = Append(@, v.vert_appr_angle)]
              ELSE common
        zone == zone_of(v.plate_loc_side, v.plate_loc_height)
        new == IF s = PPR THEN fb
               ELSE [fb EXCEPT
                       !.OZPitches = @ + (IF zone = "out" THEN 1 ELSE 0),
                       !.IZPitches = @ + (IF zone # "out" THEN 1 ELSE 0),
                       !.UpperZonePitches = @ + (IF zone = "upper" THEN 1 ELSE 0),
                       !.MidZonePitches = @ + (IF zone = "mid" THEN 1 ELSE 0),
                       !.LowerZonePitches = @ + (IF zone = "lower" THEN 1 ELSE 0)]
    IN [pitchers |-> Put(a.pitchers, p, new),
        team_runs |-> Put(a.team_runs, row.BatterTeam,
                          Get(a.team_runs, row.BatterTeam, 0) + v.runs_scored),
        pitcher_teams |-> Put(a.pitcher_teams, p, row.PitcherTeam),
        current_batter |-> Put(a.current_batter, p, b),
        first_three_pitches |->
            IF v.pitch_of_pa <= 3
            THEN Put(a.first_three_pitches, key,
                     IF v.pitch_of_pa = 3 THEN <<>> ELSE ft)
            ELSE a.first_three_pitches]

\* calculate_pitching_stats over a whole file: the dictionaries after the
\* last row, or raised when a cell of some row does not convert.
RECURSIVE fold_rows(_, _, _, _)
fold_rows(s, a, rows, i) ==
    IF i > Len(rows) THEN [raised |-> FALSE, agg |-> a]
    ELSE LET v == parse_row(s, rows[i])
         IN IF ~v.ok THEN [raised |-> TRUE, agg |-> a]
            ELSE IF skips_row(s, rows[i]) THEN fold_rows(s, a, rows, i + 1)
            ELSE fold_rows(s, aggregate_row(s, a, rows[i], v), rows, i + 1)

-----------------------------------------------------------------------------
\* Win/loss assignment.
PracticeTeams == {"AUB_TIG", "AUB_PRC"}

\* Variant with the comparison reversed: the team with strictly fewer runs.
team_with_fewer_runs(runs, teams) ==
    IF \E t \in teams : \A u \in teams \ {t} : runs[t] < runs[u]
    THEN CHOOSE t \in teams : \A u \in teams \ {t} : runs[t] < runs[u]
    ELSE ""

\* Variant without the practice-game exclusion.
decides_practice_game(runs) ==
    /\ Cardinality(DOMAIN runs) = 2
    /\ \E t \in DOMAIN runs : \A u \in (DOMAIN runs) \ {t} : runs[t] > runs[u]

\* The team with strictly more runs of the two, "" when tied.
winning_team(runs, teams) ==
    IF \E t \in teams : \A u \in teams \ {t} : runs[t] > runs[u]
    THEN CHOOSE t \in teams : \A u \in teams \ {t} : runs[t] > runs[u]
    ELSE ""

decides_game(runs) ==
    /\ Cardinality(DOMAIN runs) = 2
    /\ DOMAIN runs # PracticeTeams
    /\ \E t \in DOMAIN runs : \A u \in (DOMAIN runs) \ {t} : runs[t] > runs[u]

assign_wins_losses(ps, runs, teams_of) ==
    IF ~decides_game(runs) THEN ps
    ELSE LET w == winning_team(runs, DOMAIN runs)
             l == CHOOSE t \in DOMAIN runs : t # w
         IN [p \in DOMAIN ps |->
               IF p \notin DOMAIN teams_of THEN ps[p]
               ELSE IF teams_of[p] = w THEN [ps[p] EXCEPT !.Wins = @ + 1]
               ELSE IF teams_of[p] = l THEN [ps[p] EXCEPT !.Losses = @ + 1]
               ELSE ps[p]]

-----------------------------------------------------------------------------
\* Derived metrics.
FIP_constant == <<317, 100>>

\* Variant that takes outs for innings.
outs_as_innings(outs_recorded) == <<outs_recorded, 1>>

\* Variant without the league constant.
fip_without_constant(home_runs, walks, hit_by_pitches, strikeouts, ip) ==
    IF FracPos(ip)
    THEN FracDiv(<<13 * home_runs + 3 * (walks + hit_by_pitches) - 2 * strikeouts, 1>>, ip)
    ELSE Zero

innings_pitched(outs_recorded) == <<outs_recorded, 3>>

era(earned_runs, ip) ==
    IF FracPos(ip) THEN FracDiv(<<9 * earned_runs, 1>>, ip) ELSE Zero

fip(home_runs, walks, hit_by_pitches, strikeouts, ip) ==
    IF FracPos(ip)
    THEN FracAdd(FracDiv(<<13 * home_runs + 3 * (walks + hit_by_pitches)
                           - 2 * strikeouts, 1>>, ip), FIP_constant)
    ELSE Zero

derive(st) ==
    LET ip == innings_pitched(st.OutsRecorded)
    IN [st EXCEPT !.InningsPitched = ip,
                  !.ERA = era(st.EarnedRuns, ip),
                  !.FIP = fip(st.HomeRuns, st.Walks, st.HitBatters, st.Strikeouts, ip)]

\* PitchingProcessRecursive.calculate_derived_stats
calculate_derived_stats(ps) == [p \in DOMAIN ps |-> derive(ps[p])]

RECURSIVE SumSeq(_, _)
SumSeq(a, i) == IF i > Len(a) THEN 0 ELSE a[i] + SumSeq(a, i + 1)

Squares(a) == [i \in 1..Len(a) |-> a[i] * a[i]]

Sorted(a) ==
    [i \in 1..Len(a) |->
        CHOOSE x \in {a[j] : j \in 1..Len(a)} :
            /\ Cardinality({j \in 1..Len(a) : a[j] < x}) < i
            /\ i <= Cardinality({j \in 1..Len(a) : a[j] <= x})]

\* Twice statistics.median
TwiceMedian(a) ==
    LET n == Len(a)
        srt == Sorted(a)
    IN IF n % 2 = 1 THEN 2 * srt[(n + 1) \div 2]
       ELSE srt[n \div 2] + srt[n \div 2 + 1]

\* The guard before the normalisation: len(...) >= 2 in pitchingStatsConverter,
\* truth of the list in playerStatsConverter.
normalises(s, angles) == IF s = PSC THEN Len(angles) >= 2 ELSE Len(angles) >= 1

\* mean, stdev, z-scores, median.  statistics.stdev raises on fewer than two
\* values; the division raises when the deviation is 0.
fb_nvaa(s, angles) ==
    LET n == Len(angles)
        sum == SumSeq(angles, 1)
        sq == SumSeq(Squares(angles), 1)
    IN IF ~normalises(s, angles) THEN [raised |-> "", val |-> NoFBnVAA]
       ELSE IF n < 2 THEN [raised |-> "StatisticsError", val |-> NoFBnVAA]
       ELSE IF n * sq - sum * sum = 0
            THEN [raised |-> "ZeroDivisionError", val |-> NoFBnVAA]
       ELSE [raised |-> "",
             val |-> [dev |-> <<n * TwiceMedian(angles) - 2 * sum, 2 * n>>,
                      var |-> <<n * sq - sum * sum, n * (n - 1)>>]]

\* The statistics loop that ends calculate_pitching_stats in
\* pitchingStatsConverter and playerStatsConverter visits the pitchers in the
\* order of their first row; the first one whose normalisation raises ends it.
stats_raise(s, ps, rows) ==
    LET bad == {i \in 1..Len(rows) :
                   /\ rows[i].Pitcher \in DOMAIN ps
                   /\ fb_nvaa(s, ps[rows[i].Pitcher].FBVertApprAngles).raised # ""}
        first == CHOOSE i \in bad : \A j \in bad : i <= j
    IN IF bad = {} THEN ""
       ELSE fb_nvaa(s, ps[rows[first].Pitcher].FBVertApprAngles).raised

calculate_stats_loop(s, ps) ==
    [p \in DOMAIN ps |->
        [derive(ps[p]) EXCEPT !.FBnVAA = fb_nvaa(s, ps[p].FBVertApprAngles).val]]

-----------------------------------------------------------------------------
\* Rows of the input files.
BaseRow ==
    [GameID |-> "g1", Pitcher |-> "p1", Batter |-> "b1",
     PitcherTeam |-> "AUB_TIG", BatterTeam |-> "ALA_CRI",
     RunsScored |-> "0", OutsOnPlay |-> "0", KorBB |-> "Undefined",
     PitchofPA |-> "2", PitchCall |-> "BallCalled", Strikes |-> "0", Balls |-> "0",
     TaggedHitType |-> "Undefined", PlayResult |-> "Undefined",
     TaggedPitchType |-> "Slider", VertApprAngle |-> "-6",
     PlateLocSide |-> "0", PlateLocHeight |-> "2.5"]

GameRow(p, pt, bt, r) ==
    [BaseRow EXCEPT !.Pitcher = p, !.PitcherTeam = pt, !.BatterTeam = bt, !.RunsScored = r]

BlankBatterRow == [BaseRow EXCEPT !.Batter = ""]
BlankPitcherRow == [BaseRow EXCEPT !.Pitcher = "", !.KorBB = "Strikeout"]
BlankRunsRow == [BaseRow EXCEPT !.RunsScored = ""]
BadStrikesRow == [BaseRow EXCEPT !.Strikes = "x"]
BlankAngleRow == [BaseRow EXCEPT !.VertApprAngle = ""]

\* Games: pitchers of two or three teams, runs, the practice pairing, a blank
\* team code.
RowsWL ==
    { GameRow("p1", "AUB_TIG", "ALA_CRI", "1"),
      GameRow("p2", "ALA_CRI", "AUB_TIG", "2"),
      GameRow("p2", "ALA_CRI", "AUB_TIG", "1"),
      GameRow("p3", "ALA_CRI", "AUB_TIG", "0"),
      GameRow("p2", "AUB_PRC", "AUB_TIG", "2"),
      GameRow("p1", "AUB_TIG", "AUB_PRC", "1"),
      GameRow("p1", "AUB_TIG", "", "0"),
      GameRow("p3", "GEO_BUL", "ALA_CRI", "0"),
      BlankBatterRow, BlankRunsRow, BadStrikesRow,
      [BaseRow EXCEPT !.TaggedPitchType = "Fastball"] }

StrikeoutRow == [BaseRow EXCEPT !.KorBB = "Strikeout", !.PitchCall = "StrikeSwinging",
                                !.Strikes = "2", !.PitchofPA = "3"]
WalkRow == [BaseRow EXCEPT !.KorBB = "Walk", !.Balls = "3", !.PitchofPA = "4"]
HomeRunRow == [BaseRow EXCEPT !.PlayResult = "HomeRun", !.PitchCall = "InPlay",
                              !.RunsScored = "1", !.TaggedHitType = "FlyBall",
                              !.PitchofPA = "1"]
OutRow == [BaseRow EXCEPT !.PlayResult = "Out", !.PitchCall = "InPlay",
                          !.OutsOnPlay = "2", !.TaggedHitType = "GroundBall",
                          !.Batter = "b2"]
ErrorRow == [BaseRow EXCEPT !.PlayResult = "Error", !.PitchCall = "InPlay",
                            !.RunsScored = "1", !.Pitcher = "p2",
                            !.PitcherTeam = "ALA_CRI", !.BatterTeam = "AUB_TIG"]
FoulRow(strikes, hit) ==
    [BaseRow EXCEPT !.PitchCall = "FoulBall", !.Strikes = strikes, !.TaggedHitType = hit]
HitByPitchRow == [BaseRow EXCEPT !.PitchCall = "HitByPitch", !.PitchofPA = "1"]
FastballRow(angle, call) ==
    [BaseRow EXCEPT !.TaggedPitchType = "Fastball", !.VertApprAngle = angle,
                    !.PitchCall = call]

\* Pitch calls and outcomes of one game.
RowsAgg ==
    { StrikeoutRow, WalkRow, HomeRunRow, OutRow, ErrorRow,
      [StrikeoutRow EXCEPT !.Pitcher = "p2", !.PitcherTeam = "ALA_CRI",
                           !.BatterTeam = "AUB_TIG"],
      FoulRow("2", "Undefined"), FoulRow("1", "Undefined"), FoulRow("2", "Bunt"),
      HitByPitchRow, FastballRow("-5", "StrikeCalled"), FastballRow("-4", "BallCalled"),
      BlankPitcherRow, BlankRunsRow, BadStrikesRow, BlankAngleRow }

-----------------------------------------------------------------------------
\* The single-file mains of the three pitching scripts.
CurAgg == [pitchers |-> pitchers, team_runs |-> team_runs,
           pitcher_teams |-> pitcher_teams, current_batter |-> current_batter,
           first_three_pitches |-> first_three_pitches]

SetAgg(a) ==
    /\ pitchers' = a.pitchers
    /\ team_runs' = a.team_runs
    /\ pitcher_teams' = a.pitcher_teams
    /\ current_batter' = a.current_batter
    /\ first_three_pitches' = a.first_three_pitches

InitIdle ==
    /\ data = <<>>
    /\ pitchers = EmptyMap
    /\ team_runs = EmptyMap
    /\ pitcher_teams = EmptyMap
    /\ current_batter = EmptyMap
    /\ first_three_pitches = EmptyMap
    /\ csv_files = <<>>
    /\ all_pitchers = EmptyMap
    /\ files_processed = 0
    /\ files_skipped = 0
    /\ files_excluded = 0
    /\ all_data = <<>>
    /\ players = EmptyMap
    /\ plate_appearances = {}

InitPitch ==
    /\ script \in {PPR, PSC, PLSC}
    /\ pc = "rows"
    /\ InitIdle

\* The row loop takes a row whose cells convert and aggregates it.
AggregateRow(row) ==
    /\ pc = "rows"
    /\ Len(data) < MaxRows
    /\ parse_row(script, row).ok
    /\ ~skips_row(script, row)
    /\ data' = Append(data, row)
    /\ SetAgg(aggregate_row(script, CurAgg, row, parse_row(script, row)))
    /\ UNCHANGED <<script, pc, dirVars, batVars>>

\* PitchingProcessRecursive passes over a row without pitcher or batter.
SkipRow(row) ==
    /\ pc = "rows"
    /\ Len(data) < MaxRows
    /\ parse_row(script, row).ok
    /\ skips_row(script, row)
    /\ data' = Append(data, row)
    /\ UNCHANGED <<script, pc, pitchVars, dirVars, batVars>>

\* A cell that does not convert raises out of the row loop.
RaiseOnRow(row) ==
    /\ pc = "rows"
    /\ Len(data) < MaxRows
    /\ ~parse_row(script, row).ok
    /\ data' = Append(data, row)
    /\ pc' = "ValueError"
    /\ UNCHANGED <<script, pitchVars, dirVars, batVars>>

\* PitchingProcessRecursive.calculate_pitching_stats returns after the last row.
ReturnStats ==
    /\ pc = "rows"
    /\ script = PPR
    /\ pc' = "aggregated"
    /\ UNCHANGED <<script, data, pitchVars, dirVars, batVars>>

\* The other two compute the statistics of every pitcher before returning.
ComputeStats ==
    /\ pc = "rows"
    /\ script \in {PSC, PLSC}
    /\ stats_raise(script, pitchers, data) = ""
    /\ pitchers' = calculate_stats_loop(script, pitchers)
    /\ pc' = "aggregated"
    /\ UNCHANGED <<script, data, team_runs, pitcher_teams, current_batter,
                   first_three_pitches, dirVars, batVars>>

RaiseOnStats ==
    /\ pc = "rows"
    /\ script \in {PSC, PLSC}
    /\ stats_raise(script, pitchers, data) # ""
    /\ pc' = stats_raise(script, pitchers, data)
    /\ UNCHANGED <<script, data, pitchVars, dirVars, batVars>>

AssignWinsLosses ==
    /\ pc = "aggregated"
    /\ pitchers' = assign_wins_losses(pitchers, team_runs, pitcher_teams)
    /\ pc' = "assigned"
    /\ UNCHANGED <<script, data, team_runs, pitcher_teams, current_batter,
                   first_three_pitches, dirVars, batVars>>

PrintPitchingStats ==
    /\ pc = "assigned"
    /\ pc' = "printed"
    /\ UNCHANGED <<script, data, pitchVars, dirVars, batVars>>

\* PitchingProcessRecursive, choice 1, answer y: derived stats, then the CSV.
SaveStats ==
    /\ pc = "printed"
    /\ script = PPR
    /\ pitchers' = calculate_derived_stats(pitchers)
    /\ pc' = "saved"
    /\ UNCHANGED <<script, data, team_runs, pitcher_teams, current_batter,
                   first_three_pitches, dirVars, batVars>>

AfterRows ==
    \/ ReturnStats
    \/ ComputeStats
    \/ RaiseOnStats
    \/ AssignWinsLosses
    \/ PrintPitchingStats
    \/ SaveStats

NextWL ==
    \/ \E row \in RowsWL : AggregateRow(row) \/ SkipRow(row) \/ RaiseOnRow(row)
    \/ AfterRows

SpecWL == InitPitch /\ [][NextWL]_vars

\* The derived metrics of the pitchers have been computed.
Derived ==
    \/ script \in {PSC, PLSC} /\ pc \in {"aggregated", "assigned", "printed"}
    \/ script = PPR /\ pc = "saved"

-----------------------------------------------------------------------------
\* The directory batches.  A file is readable ("ok"), gone when it is opened
\* ("missing", FileNotFoundError) or fails to open or decode in another way
\* ("unreadable", e.g. PermissionError, UnicodeDecodeError).
File(name, kind, rows) == [name |-> name, kind |-> kind, rows |-> rows]

Files ==
    { File("k_hr", "ok", <<StrikeoutRow, HomeRunRow>>),
      File("bb_out", "ok", <<WalkRow, OutRow>>),
      File("game", "ok", <<GameRow("p1", "AUB_TIG", "ALA_CRI", "1"),
                           GameRow("p2", "ALA_CRI", "AUB_TIG", "2")>>),
      File("practice", "ok", <<GameRow("p1", "AUB_TIG", "AUB_PRC", "1"),
                               GameRow("p2", "AUB_PRC", "AUB_TIG", "2")>>),
      File("badcell", "ok", <<StrikeoutRow, BadStrikesRow>>),
      File("gone", "missing", <<>>),
      File("binary", "unreadable", <<>>) }

\* PitchingProcessRecursive.read_csv returns None on any exception.
read_csv_fails(f) == f.kind # "ok"

\* Variant that looks at the first row only.
first_row_is_aub_prc(rows) == Len(rows) > 0 /\ rows[1].PitcherTeam = "AUB_PRC"

contains_aub_prc(rows) == \E i \in 1..Len(rows) : rows[i].PitcherTeam = "AUB_PRC"

\* Variant that keeps only the latest file's stats.
merge_overwrite(old, new) == new

\* for stat, value in stats.items(): every stat but ERA, FIP and Team is added.
merge_stats(old, new) ==
    [k \in DOMAIN old |->
        IF k \in {"ERA", "FIP", "Team"} THEN old[k]
        ELSE IF k = "InningsPitched" THEN FracAdd(old[k], new[k])
        ELSE old[k] + new[k]]

merge_pitchers(all, ps) ==
    [p \in (DOMAIN all) \cup (DOMAIN ps) |->
        IF p \notin DOMAIN ps THEN all[p]
        ELSE IF p \notin DOMAIN all THEN ps[p]
        ELSE merge_stats(all[p], ps[p])]

\* Variant that hands over what was aggregated before the exception.
file_stats_partial(rows) ==
    LET r == fold_rows(PPR, NewAgg, rows, 1)
        ps == assign_wins_losses(r.agg.pitchers, r.agg.team_runs, r.agg.pitcher_teams)
    IN [raised |-> FALSE,
        pitchers |-> [p \in DOMAIN ps |->
                        [Team |-> r.agg.pitcher_teams[p]] @@ ps[p]]]

\* The body of the try block up to the merge: the file's stats with wins,
\* losses and team.
file_stats(rows) ==
    LET r == fold_rows(PPR, NewAgg, rows, 1)
        ps == assign_wins_losses(r.agg.pitchers, r.agg.team_runs, r.agg.pitcher_teams)
    IN [raised |-> r.raised,
        pitchers |-> [p \in DOMAIN ps |->
                        [Team |-> r.agg.pitcher_teams[p]] @@ ps[p]]]

InitDirPPR ==
    /\ script = PPR
    /\ pc = "files"
    /\ InitIdle

\* process_all_csv_files, one file of the loop.
SkipUnreadFile(f) ==
    /\ pc = "files" /\ script = PPR
    /\ Len(csv_files) < MaxFiles
    /\ read_csv_fails(f)
    /\ csv_files' = Append(csv_files, f)
    /\ files_skipped' = files_skipped + 1
    /\ UNCHANGED <<script, pc, data, pitchVars, all_pitchers, files_processed,
                   files_excluded, all_data, batVars>>

ExcludeFile(f) ==
    /\ pc = "files" /\ script = PPR
    /\ Len(csv_files) < MaxFiles
    /\ ~read_csv_fails(f)
    /\ contains_aub_prc(f.rows)
    /\ csv_files' = Append(csv_files, f)
    /\ files_excluded' = files_excluded + 1
    /\ UNCHANGED <<script, pc, data, pitchVars, all_pitchers, files_processed,
                   files_skipped, all_data, batVars>>

MergeFile(f) ==
    /\ pc = "files" /\ script = PPR
    /\ Len(csv_files) < MaxFiles
    /\ ~read_csv_fails(f)
    /\ ~contains_aub_prc(f.rows)
    /\ ~file_stats(f.rows).raised
    /\ csv_files' = Append(csv_files, f)
    /\ all_pitchers' = merge_pitchers(all_pitchers, file_stats(f.rows).pitchers)
    /\ files_processed' = files_processed + 1
    /\ UNCHANGED <<script, pc, data, pitchVars, files_skipped, files_excluded,
                   all_data, batVars>>

SkipFailingFile(f) ==
    /\ pc = "files" /\ script = PPR
    /\ Len(csv_files) < MaxFiles
    /\ ~read_csv_fails(f)
    /\ ~contains_aub_prc(f.rows)
    /\ file_stats(f.rows).raised
    /\ csv_files' = Append(csv_files, f)
    /\ files_skipped' = files_skipped + 1
    /\ UNCHANGED <<script, pc, data, pitchVars, all_pitchers, files_processed,
                   files_excluded, all_data, batVars>>

\* After the loop: derived stats of the merged totals, then the CSV.
WriteCombined ==
    /\ pc = "files" /\ script = PPR
    /\ csv_files # <<>>
    /\ files_processed > 0
    /\ all_pitchers' = calculate_derived_stats(all_pitchers)
    /\ pc' = "written"
    /\ UNCHANGED <<script, data, pitchVars, csv_files, files_processed, files_skipped,
                   files_excluded, all_data, batVars>>

NoOutput ==
    /\ pc = "files" /\ script = PPR
    /\ csv_files = <<>> \/ files_processed = 0
    /\ pc' = "nooutput"
    /\ UNCHANGED <<script, data, pitchVars, dirVars, batVars>>

ProcessAllCsvFiles ==
    \/ \E f \in Files : SkipUnreadFile(f) \/ ExcludeFile(f) \/ MergeFile(f)
                            \/ SkipFailingFile(f)
    \/ WriteCombined
    \/ NoOutput

\* statsConverterRecursive.read_csv_directory: only FileNotFoundError is caught.
ExtendAllData(f) ==
    /\ pc = "files" /\ script = SCR
    /\ Len(csv_files) < MaxFiles
    /\ f.kind = "ok"
    /\ csv_files' = Append(csv_files, f)
    /\ all_data' = Append(all_data, f.name)
    /\ UNCHANGED <<script, pc, data, pitchVars, all_pitchers, files_processed,
                   files_skipped, files_excluded, batVars>>

FileNotFound(f) ==
    /\ pc = "files" /\ script = SCR
    /\ Len(csv_files) < MaxFiles
    /\ f.kind = "missing"
    /\ csv_files' = Append(csv_files, f)
    /\ UNCHANGED <<script, pc, data, pitchVars, all_pitchers, files_processed,
                   files_skipped, files_excluded, all_data, batVars>>

RaiseOnFile(f) ==
    /\ pc = "files" /\ script = SCR
    /\ Len(csv_files) < MaxFiles
    /\ f.kind = "unreadable"
    /\ csv_files' = Append(csv_files, f)
    /\ pc' = "OSError"
    /\ UNCHANGED <<script, data, pitchVars, all_pitchers, files_processed,
                   files_skipped, files_excluded, all_data, batVars>>

ReturnAllData ==
    /\ pc = "files" /\ script = SCR
    /\ pc' = "read"
    /\ UNCHANGED <<script, data, pitchVars, dirVars, batVars>>

ReadCsvDirectory ==
    \/ \E f \in Files : ExtendAllData(f) \/ FileNotFound(f) \/ RaiseOnFile(f)
    \/ ReturnAllData

\* MegaPG.combine_csv_files: any exception of pd.read_csv skips the file.
AppendFrame(f) ==
    /\ pc = "files" /\ script = MPG
    /\ Len(csv_files) < MaxFiles
    /\ f.kind = "ok"
    /\ csv_files' = Append(csv_files, f)
    /\ all_data' = Append(all_data, f.name)
    /\ UNCHANGED <<script, pc, data, pitchVars, all_pitchers, files_processed,
                   files_skipped, files_excluded, batVars>>

SkipFrame(f) ==
    /\ pc = "files" /\ script = MPG
    /\ Len(csv_files) < MaxFiles
    /\ f.kind # "ok"
    /\ csv_files' = Append(csv_files, f)
    /\ UNCHANGED <<script, pc, data, pitchVars, all_pitchers, files_processed,
                   files_skipped, files_excluded, all_data, batVars>>

Combine ==
    /\ pc = "files" /\ script = MPG
    /\ pc' = IF all_data # <<>> THEN "combined" ELSE "novalid"
    /\ UNCHANGED <<script, data, pitchVars, dirVars, batVars>>

CombineCsvFiles ==
    \/ \E f \in Files : AppendFrame(f) \/ SkipFrame(f)
    \/ Combine

InitDir ==
    /\ script \in {PPR, SCR, MPG}
    /\ pc = "files"
    /\ InitIdle

NextDir == ProcessAllCsvFiles \/ ReadCsvDirectory \/ CombineCsvFiles

SpecDir == InitDir /\ [][NextDir]_vars

\* The pitching scripts in every run mode: one file, or a directory.
InitAgg == InitPitch \/ InitDirPPR

NextAgg ==
    \/ \E row \in RowsAgg : AggregateRow(row) \/ SkipRow(row) \/ RaiseOnRow(row)
    \/ AfterRows
    \/ ProcessAllCsvFiles

SpecAgg == InitAgg /\ [][NextAgg]_vars

-----------------------------------------------------------------------------
\* The batting aggregators: playerStatsConverter.calculate_hitting_stats,
\* statsConverter.calculate_stats, statsConverterRecursive.calculate_hitting_stats.
MaxHitRows == 3

\* str.strip() on the cells statsConverterRecursive reads.
Padded == [t \in {"b1 "} |-> "b1"]
strip(t) == IF t \in DOMAIN Padded THEN Padded[t] ELSE t

cell(s, t) == IF s = SCR THEN strip(t) ELSE t

\* int(row.get(k, '0')) if row.get(k, '0').isdigit() else 0
IntIfDigits(t) == IF t \in DOMAIN IntText THEN Ok(IntText[t]) ELSE Ok(0)

hit_int(s, t) == IF s = SCR THEN IntIfDigits(t) ELSE IntOfCell(t)

\* try: float(...) except ValueError: 0
float_or_zero(t) == IF t \in DOMAIN FloatText THEN FloatText[t] ELSE 0

\* statsConverter also converts Outs and PitchNumber.
parse_hit_row(s, row) ==
    LET rs == hit_int(s, row.RunsScored)
        oo == hit_int(s, row.OutsOnPlay)
        ob == IF s = SC THEN IntOfCell(row.Outs) ELSE Ok(0)
        pn == IF s = SC THEN IntOfCell(row.PitchNumber) ELSE Ok(0)
    IN [ok |-> rs.ok /\ oo.ok /\ ob.ok /\ pn.ok,
        runs_scored |-> rs.val, outs_on_play |-> oo.val,
        exit_speed |-> float_or_zero(row.ExitSpeed),
        launch_angle |-> float_or_zero(row.Angle)]

InitialBatting ==
    [ExitSpeeds |-> <<>>, Angles |-> <<>>, PA |-> 0, oneB |-> 0, twoB |-> 0,
     threeB |-> 0, HR |-> 0, H |-> 0, TB |-> 0, K |-> 0, BB |-> 0, HBP |-> 0,
     SH |-> 0, SF |-> 0, AB |-> 0, RBI |-> 0, GDP |-> 0]

initial_batting(s, batter_team) ==
    IF s = SCR THEN InitialBatting @@ [Team |-> batter_team]
    ELSE IF s = PLSC
         THEN InitialBatting @@ [AvgExitVelocity |-> Zero, AvgLaunchAngle |-> Zero]
    ELSE InitialBatting

\* statsConverter leaves the game out of the identifier.
pa_identifier(s, row) ==
    IF s = SC THEN <<row.Batter, row.Inning, row.TopBottom, row.PAofInning>>
    ELSE <<cell(s, row.GameID), cell(s, row.Batter), cell(s, row.Inning),
           cell(s, row.TopBottom), cell(s, row.PAofInning)>>

\* Variant in which a Triple is worth two bases.
bases_short_triple(play_result) ==
    CASE play_result = "Single" -> 1 [] play_result = "Double" -> 2
      [] play_result = "Triple" -> 2 [] play_result = "HomeRun" -> 4
      [] OTHER -> 0

bases(play_result) ==
    CASE play_result = "Single" -> 1 [] play_result = "Double" -> 2
      [] play_result = "Triple" -> 3 [] play_result = "HomeRun" -> 4
      [] OTHER -> 0

sh_inc(s, play_result, hit_type) ==
    IF play_result = "Sacrifice" /\ hit_type = "Bunt" THEN 1 ELSE 0

sf_inc(s, play_result, hit_type) ==
    IF play_result # "Sacrifice" \/ hit_type = "Bunt" THEN 0
    ELSE IF s = SCR THEN 1
    ELSE IF hit_type \in {"FlyBall", "Popup"} THEN 1 ELSE 0

\* Variant in which a strikeout is no at-bat.
ab_without_strikeout(play_result, korbb) ==
    IF play_result \in AtBatResults /\ play_result # "Sacrifice" THEN 1 ELSE 0

\* Variant that takes a Sacrifice for an at-bat.
ab_with_sacrifice(play_result, korbb) ==
    (IF korbb = "Strikeout" THEN 1 ELSE 0)
    + (IF play_result \in AtBatResults \cup {"Sacrifice"} THEN 1 ELSE 0)

ab_inc(play_result, korbb) ==
    (IF korbb = "Strikeout" THEN 1 ELSE 0)
    + (IF play_result \in AtBatResults /\ play_result # "Sacrifice" THEN 1 ELSE 0)

is_gdp(play_result, hit_type, outs_on_play) ==
    play_result = "Out" /\ hit_type = "GroundBall" /\ outs_on_play = 2

\* Variant in which the Sacrifice credit is a guard of its own.
rbi_sacrifice_added(play_result, hit_type, outs_on_play, korbb, pitch_call, runs_scored) ==
    (IF play_result \notin {"Error", "FieldersChoice"}
        /\ ~is_gdp(play_result, hit_type, outs_on_play) THEN runs_scored ELSE 0)
    + (IF play_result = "Sacrifice" THEN runs_scored ELSE 0)
    + (IF korbb = "Walk" /\ runs_scored > 0 THEN runs_scored ELSE 0)
    + (IF pitch_call = "HitByPitch" /\ runs_scored > 0 THEN runs_scored ELSE 0)

rbi_inc(play_result, hit_type, outs_on_play, korbb, pitch_call, runs_scored) ==
    (IF play_result \notin {"Error", "FieldersChoice"}
        /\ ~is_gdp(play_result, hit_type, outs_on_play) THEN runs_scored
     ELSE IF play_result = "Sacrifice" THEN runs_scored ELSE 0)
    + (IF korbb = "Walk" /\ runs_scored > 0 THEN runs_scored ELSE 0)
    + (IF pitch_call = "HitByPitch" /\ runs_scored > 0 THEN runs_scored ELSE 0)

average(values) == IF Len(values) > 0 THEN <<SumSeq(values, 1), Len(values)>> ELSE Zero

averages(st) ==
    [AvgExitVelocity |-> average(st.ExitSpeeds),
     AvgLaunchAngle |-> average(st.Angles)] @@ st

wOBA_WEIGHTS ==
    [BB |-> 69, HBP |-> 72, oneB |-> 88, twoB |-> 125, threeB |-> 159, HR |-> 205]

\* Variant without the guard on the denominator.
ratio_unguarded(n, d) == <<n, d>>

ratio(n, d) == IF d > 0 THEN <<n, d>> ELSE Zero

derived_batting(st) ==
    LET on_base == st.AB + st.BB + st.HBP + st.SF
        AVG == ratio(st.H, st.AB)
        OBP == ratio(st.H + st.BB + st.HBP, on_base)
        SLG == ratio(st.TB, st.AB)
    IN [AVG |-> AVG,
        BBpercent |-> ratio(100 * st.BB, st.PA),
        Kpercent |-> ratio(100 * st.K, st.PA),
        OBP |-> OBP, SLG |-> SLG,
        OPS |-> FracAdd(OBP, SLG),
        ISO |-> FracSub(SLG, AVG),
        BABIP |-> ratio(st.H - st.HR, st.AB - st.K - st.HR + st.SF),
        wOBA |-> ratio(wOBA_WEIGHTS.BB * st.BB + wOBA_WEIGHTS.HBP * st.HBP
                       + wOBA_WEIGHTS.oneB * st.oneB + wOBA_WEIGHTS.twoB * st.twoB
                       + wOBA_WEIGHTS.threeB * st.threeB + wOBA_WEIGHTS.HR * st.HR,
                       100 * on_base)] @@ st

\* One iteration of the row loop of a batting aggregator.  In
\* playerStatsConverter the pitching pass has entered the pitcher of every row
\* before, with batting stats at zero (entered here with the pitcher's row).
hit_row(s, ps, pas, row, v) ==
    LET b == cell(s, row.Batter)
        pr == cell(s, row.PlayResult)
        ht == cell(s, row.TaggedHitType)
        kb == cell(s, row.KorBB)
        call == cell(s, row.PitchCall)
        entered == IF s = PLSC /\ row.Pitcher \notin DOMAIN ps
                   THEN Put(ps, row.Pitcher, InitialBatting) ELSE ps
        old == Get(entered, b, initial_batting(s, cell(s, row.BatterTeam)))
        id == pa_identifier(s, row)
        hit == IF bases(pr) > 0 THEN 1 ELSE 0
        new == [old EXCEPT
            !.ExitSpeeds = IF v.exit_speed # 0 THEN Append(@, v.exit_speed) ELSE @,
            !.Angles = IF v.launch_angle # 0 THEN Append(@, v.launch_angle) ELSE @,
            !.PA = @ + (IF id \notin pas THEN 1 ELSE 0),
            !.oneB = @ + (IF pr = "Single" THEN 1 ELSE 0),
            !.twoB = @ + (IF pr = "Double" THEN 1 ELSE 0),
            !.threeB = @ + (IF pr = "Triple" THEN 1 ELSE 0),
            !.HR = @ + (IF pr = "HomeRun" THEN 1 ELSE 0),
            !.H = @ + hit,
            !.TB = @ + bases(pr),
            !.SH = @ + sh_inc(s, pr, ht),
            !.SF = @ + sf_inc(s, pr, ht),
            !.K = @ + (IF kb = "Strikeout" THEN 1 ELSE 0),
            !.BB = @ + (IF kb # "Strikeout" /\ kb = "Walk" THEN 1 ELSE 0),
            !.HBP = @ + (IF call = "HitByPitch" THEN 1 ELSE 0),
            !.AB = @ + ab_inc(pr, kb),
            !.RBI = @ + rbi_inc(pr, ht, v.outs_on_play, kb, call, v.runs_scored),
            !.GDP = @ + (IF is_gdp(pr, ht, v.outs_on_play) THEN 1 ELSE 0)]
        put == Put(entered, b, new)
    IN [players |-> IF s = SCR THEN put
                    ELSE [x \in DOMAIN put |-> averages(put[x])],
        plate_appearances |-> pas \cup {id}]

HitBase ==
    BaseRow @@ [Inning |-> "1", TopBottom |-> "Top", PAofInning |-> "1",
                Outs |-> "0", PitchNumber |-> "1", ExitSpeed |-> "", Angle |-> ""]

PitchOf(game, pa) == [HitBase EXCEPT !.GameID = game, !.PAofInning = pa]

\* Pitches of plate appearances of two games, and a few outcomes.
RowsPA ==
    { PitchOf("g1", "1"), PitchOf("g2", "1"), PitchOf("g1", "2"),
      [HitBase EXCEPT !.Batter = "b1 "],
      [HitBase EXCEPT !.Batter = "b2", !.PlayResult = "Single", !.PitchCall = "InPlay",
                      !.RunsScored = "1", !.ExitSpeed = "4", !.Angle = "2"],
      [HitBase EXCEPT !.GameID = "g2", !.KorBB = "Strikeout",
                      !.PitchCall = "StrikeSwinging", !.ExitSpeed = "x"],
      [HitBase EXCEPT !.PlayResult = "Sacrifice", !.TaggedHitType = "GroundBall",
                      !.PitchCall = "InPlay", !.PAofInning = "2"],
      [HitBase EXCEPT !.RunsScored = ""] }

BattingScripts == {PLSC, SC, SCR}

InitBat ==
    /\ script \in BattingScripts
    /\ pc = "hitting"
    /\ InitIdle

HitRow(row) ==
    /\ pc = "hitting"
    /\ Len(data) < MaxHitRows
    /\ parse_hit_row(script, row).ok
    /\ data' = Append(data, row)
    /\ LET r == hit_row(script, players, plate_appearances, row,
                        parse_hit_row(script, row))
       IN /\ players' = r.players
          /\ plate_appearances' = r.plate_appearances
    /\ UNCHANGED <<script, pc, pitchVars, dirVars>>

\* int() of a blank or malformed RunsScored or OutsOnPlay raises.
RaiseOnHitRow(row) ==
    /\ pc = "hitting"
    /\ Len(data) < MaxHitRows
    /\ ~parse_hit_row(script, row).ok
    /\ data' = Append(data, row)
    /\ pc' = "ValueError"
    /\ UNCHANGED <<script, pitchVars, dirVars, batVars>>

\* statsConverterRecursive main: no rows, no aggregation.
NoData ==
    /\ pc = "hitting"
    /\ script = SCR
    /\ data = <<>>
    /\ pc' = "nodata"
    /\ UNCHANGED <<script, data, pitchVars, dirVars, batVars>>

\* The aggregator returns; statsConverterRecursive first computes the averages
\* and the derived metrics of every batter.
ReturnPlayers ==
    /\ pc = "hitting"
    /\ script = SCR => data # <<>>
    /\ players' = IF script = SCR
                  THEN [b \in DOMAIN players |-> derived_batting(averages(players[b]))]
                  ELSE players
    /\ pc' = "returned"
    /\ UNCHANGED <<script, data, pitchVars, dirVars, plate_appearances>>

\* print_stats only prints; print_hitting_stats also stores the derived metrics.
PrintHittingStats ==
    /\ pc = "returned"
    /\ script \in {SC, PLSC}
    /\ players' = IF script = PLSC
                  THEN [b \in DOMAIN players |-> derived_batting(players[b])]
                  ELSE players
    /\ pc' = "printed"
    /\ UNCHANGED <<script, data, pitchVars, dirVars, plate_appearances>>

\* generate_csv / write_stats_to_csv
WriteHittingCsv ==
    /\ \/ script = PLSC /\ pc = "printed"
       \/ script = SCR /\ pc = "returned"
    /\ pc' = "saved"
    /\ UNCHANGED <<script, data, pitchVars, dirVars, batVars>>

AfterHitRows == NoData \/ ReturnPlayers \/ PrintHittingStats \/ WriteHittingCsv

NextPA ==
    \/ \E row \in RowsPA : HitRow(row) \/ RaiseOnHitRow(row)
    \/ AfterHitRows

SpecPA == InitBat /\ [][NextPA]_vars

-----------------------------------------------------------------------------
\* Properties.

\* The rows of the file that the pitching loop has aggregated for pitcher p.
Counted(i) == parse_row(script, data[i]).ok /\ ~skips_row(script, data[i])
RowsOf(p) == {i \in 1..Len(data) : data[i].Pitcher = p /\ Counted(i)}
CountOf(p, Holds(_)) == Cardinality({i \in RowsOf(p) : Holds(data[i])})
CellInt(t) == IF t \in DOMAIN IntText THEN IntText[t] ELSE 0

Assigned == script \in {PPR, PSC, PLSC} /\ pc \in {"assigned", "printed", "saved"}

TwoTeams == Cardinality(DOMAIN team_runs) = 2
Higher(t) ==
    t \in DOMAIN team_runs /\ \A u \in (DOMAIN team_runs) \ {t} : team_runs[t] > team_runs[u]
Lower(t) ==
    t \in DOMAIN team_runs /\ \A u \in (DOMAIN team_runs) \ {t} : team_runs[t] < team_runs[u]
Tied == \A t, u \in DOMAIN team_runs : team_runs[t] = team_runs[u]

WinnersAndLosers ==
    \A p \in DOMAIN pitchers :
        /\ Higher(pitcher_teams[p]) => pitchers[p].Wins = 1 /\ pitchers[p].Losses = 0
        /\ Lower(pitcher_teams[p]) => pitchers[p].Losses = 1 /\ pitchers[p].Wins = 0
        /\ Tied => pitchers[p].Wins = 0 /\ pitchers[p].Losses = 0

\* C1, as stated: after assign_wins_losses on a file with exactly two teams in
\* the runs tally, every pitcher of the higher-scoring team has one win and no
\* loss, every pitcher of the lower-scoring team one loss and no win, and a
\* tie leaves all at zero.  Fails for the practice pairing.
C1_AnyTwoTeams == (Assigned /\ TwoTeams) => WinnersAndLosers

\* C1, amended: the same, for two teams that are not the practice pairing
\* {AUB_TIG, AUB_PRC}.
C1_TwoTeamsNotPractice ==
    (Assigned /\ TwoTeams /\ DOMAIN team_runs # PracticeTeams) => WinnersAndLosers

C1_Witness ==
    /\ Assigned /\ TwoTeams /\ DOMAIN team_runs # PracticeTeams
    /\ \E p, q \in DOMAIN pitchers :
          /\ Higher(pitcher_teams[p]) /\ pitchers[p].Wins = 1
          /\ Lower(pitcher_teams[q]) /\ pitchers[q].Losses = 1

\* C2: assign_wins_losses leaves Wins and Losses of every pitcher at their
\* value before the call (0 in a single file) when the runs tally does not
\* hold exactly two teams, a blank team code counting as a team, and when the
\* two teams are the practice pairing, whatever the runs.
C2_NoDecision ==
    (Assigned /\ (~TwoTeams \/ DOMAIN team_runs = PracticeTeams))
        => \A p \in DOMAIN pitchers : pitchers[p].Wins = 0 /\ pitchers[p].Losses = 0

C2_Witness ==
    /\ Assigned
    /\ DOMAIN team_runs = PracticeTeams
    /\ team_runs["AUB_TIG"] # team_runs["AUB_PRC"]
    /\ DOMAIN pitchers # {}

IsTwoStrikeFoul(row) ==
    row.PitchCall = "FoulBall" /\ CellInt(row.Strikes) = 2 /\ row.TaggedHitType # "Bunt"
IsStrike(row) ==
    \/ row.PitchCall \in {"StrikeCalled", "StrikeSwinging", "InPlay"}
    \/ /\ row.PitchCall = "FoulBall"
       /\ \/ CellInt(row.Strikes) < 2
          \/ CellInt(row.Strikes) = 2 /\ row.TaggedHitType = "Bunt"
IsBall(row) == row.PitchCall \in {"BallCalled", "BallinDirt", "BallIntentional"}

\* C3: for every pitcher, FoulsAfter2Strikes counts exactly the aggregated
\* fouls with two strikes that are not bunts, Strikes counts the called and
\* swinging strikes, balls in play and the other fouls, Balls counts no foul;
\* so a pitcher with a two-strike non-bunt foul has Strikes + Balls < TotalPitches.
C3_FoulAfterTwoStrikes ==
    \A p \in DOMAIN pitchers :
        /\ pitchers[p].FoulsAfter2Strikes = CountOf(p, IsTwoStrikeFoul)
        /\ pitchers[p].Strikes = CountOf(p, IsStrike)
        /\ pitchers[p].Balls = CountOf(p, IsBall)
        /\ CountOf(p, IsTwoStrikeFoul) > 0
              => pitchers[p].Strikes + pitchers[p].Balls < pitchers[p].TotalPitches

C3_Witness ==
    /\ pc = "rows" /\ Len(data) = 3
    /\ \E i, j, k \in 1..3 :
          /\ data[i] = FoulRow("2", "Undefined")
          /\ data[j] = FoulRow("2", "Bunt")
          /\ data[k] = FoulRow("1", "Undefined")
    /\ pitchers["p1"].FoulsAfter2Strikes = 1
    /\ pitchers["p1"].Strikes = 2

SameBatter(s, row, b) == cell(s, row.Batter) = b
Tuple5(row) == <<row.GameID, row.Batter, row.Inning, row.TopBottom, row.PAofInning>>

\* C4, as stated: in every batting aggregator a batter's PA is the number of
\* distinct (GameID, Batter, Inning, Top/Bottom, PAofInning) tuples among the
\* batter's rows.  Fails in statsConverter, whose identifier has no GameID.
C4_PAIsDistinctTuples ==
    (script \in BattingScripts /\ pc = "hitting") =>
        \A b \in DOMAIN players :
            players[b].PA =
                Cardinality({Tuple5(data[i]) :
                    i \in {j \in 1..Len(data) : SameBatter(script, data[j], b)}})

IPIsOutsOverThree(st) ==
    st.InningsPitched[1] * 3 = st.OutsRecorded * st.InningsPitched[2]
ERAFormula(st) ==
    IF st.InningsPitched[1] = 0 THEN st.ERA[1] = 0
    ELSE st.ERA[1] * st.InningsPitched[1]
            = 9 * st.EarnedRuns * st.InningsPitched[2] * st.ERA[2]

\* C5: once the derived metrics are computed, every pitcher has
\* InningsPitched = OutsRecorded / 3, ERA = 0 when InningsPitched = 0 and
\* ERA = 9 * EarnedRuns / InningsPitched otherwise; in the directory run this
\* holds of the merged totals that are written.
C5_InningsAndERA ==
    /\ Derived => \A p \in DOMAIN pitchers :
                     IPIsOutsOverThree(pitchers[p]) /\ ERAFormula(pitchers[p])
    /\ pc = "written" => \A p \in DOMAIN all_pitchers :
                     IPIsOutsOverThree(all_pitchers[p]) /\ ERAFormula(all_pitchers[p])

C5_Witness ==
    /\ pc = "written" /\ files_processed = 2
    /\ "p1" \in DOMAIN all_pitchers
    /\ all_pitchers["p1"].OutsRecorded = 3
    /\ all_pitchers["p1"].EarnedRuns = 1
    /\ FracEq(all_pitchers["p1"].InningsPitched, <<1, 1>>)
    /\ FracEq(all_pitchers["p1"].ERA, <<9, 1>>)

FIPFormula(st) ==
    LET x == 13 * st.HomeRuns + 3 * (st.Walks + st.HitBatters) - 2 * st.Strikeouts
        ip == st.InningsPitched
    IN IF ip[1] > 0
       THEN st.FIP[1] * ip[1] * 100 = (x * ip[2] * 100 + 317 * ip[1]) * st.FIP[2]
       ELSE st.FIP[1] = 0

ThreeRowGame ==
    /\ Len(data) = 3
    /\ {data[i] : i \in 1..3} = {StrikeoutRow, WalkRow, HomeRunRow}

\* C6: every pitcher's FIP is (13*HomeRuns + 3*(Walks + HitBatters)
\* - 2*Strikeouts) / InningsPitched + 3.17 when InningsPitched > 0 and 0
\* otherwise; the game of one strikeout, one walk and one home run gives 45.17.
C6_FIP ==
    /\ Derived => \A p \in DOMAIN pitchers : FIPFormula(pitchers[p])
    /\ pc = "written" => \A p \in DOMAIN all_pitchers : FIPFormula(all_pitchers[p])
    /\ (Derived /\ ThreeRowGame) => FracEq(pitchers["p1"].FIP, <<4517, 100>>)

C6_Witness ==
    /\ Derived /\ ThreeRowGame
    /\ FracEq(pitchers["p1"].InningsPitched, <<1, 3>>)
    /\ FracEq(pitchers["p1"].FIP, <<4517, 100>>)

IsStrikeout(row) == row.KorBB = "Strikeout"
IsWalk(row) == row.KorBB = "Walk"
IsHomeRun(row) == row.PlayResult = "HomeRun"
OutsOnPlayOf(p) ==
    SumSeq([i \in 1..Len(data) |->
               IF i \in RowsOf(p) THEN CellInt(data[i].OutsOnPlay) ELSE 0], 1)

\* C7: for every pitcher, Strikeouts, Walks and HomeRuns are the numbers of
\* the pitcher's aggregated rows with KorBB = Strikeout, KorBB = Walk and
\* PlayResult = HomeRun, and OutsRecorded is the sum of OutsOnPlay over these
\* rows plus one per strikeout row; the game of one strikeout, one walk and
\* one home run gives 1, 1, 1 and one out.
C7_Counters ==
    /\ \A i \in 1..Len(data) : Counted(i) => data[i].Pitcher \in DOMAIN pitchers
    /\ \A p \in DOMAIN pitchers :
          /\ pitchers[p].Strikeouts = CountOf(p, IsStrikeout)
          /\ pitchers[p].Walks = CountOf(p, IsWalk)
          /\ pitchers[p].HomeRuns = CountOf(p, IsHomeRun)
          /\ pitchers[p].OutsRecorded = OutsOnPlayOf(p) + CountOf(p, IsStrikeout)
    /\ ThreeRowGame =>
          /\ pitchers["p1"].Strikeouts = 1 /\ pitchers["p1"].Walks = 1
          /\ pitchers["p1"].HomeRuns = 1 /\ pitchers["p1"].OutsRecorded = 1

C7_Witness ==
    /\ pc = "rows" /\ ThreeRowGame
    /\ pitchers["p1"].Strikeouts = 1 /\ pitchers["p1"].OutsRecorded = 1

\* C8, as stated: a row with a blank or malformed numeric cell does not abort
\* the pitching pass, and every row of a pitcher is counted as a pitch.  Fails:
\* int() and float() raise ValueError.
C8_BadCellIsZero ==
    /\ pc # "ValueError"
    /\ \A p \in DOMAIN pitchers :
          pitchers[p].TotalPitches =
              Cardinality({i \in 1..Len(data) :
                  data[i].Pitcher = p /\ ~skips_row(script, data[i])})

IsReadable(f) == f.kind = "ok"
Converts(f) == \A i \in 1..Len(f.rows) : parse_row(PPR, f.rows[i]).ok

\* C9, as stated: in every directory loop a file that cannot be read or
\* parsed is skipped and all the other files are still taken.  Fails in
\* read_csv_directory, which catches FileNotFoundError only.
C9_BadFileIsSkipped ==
    /\ pc # "OSError"
    /\ script \in {SCR, MPG} =>
          Len(all_data) = Len(SelectSeq(csv_files, IsReadable))
    /\ script = PPR =>
          files_processed = Cardinality({i \in 1..Len(csv_files) :
              /\ IsReadable(csv_files[i])
              /\ ~contains_aub_prc(csv_files[i].rows)
              /\ Converts(csv_files[i])})

\* C10, as stated: in pitchingStatsConverter and playerStatsConverter the
\* aggregation completes and reports FBnVAA = 0 for every pitcher with fewer
\* than two fastballs.  Fails in playerStatsConverter on exactly one fastball.
C10_FewFastballs ==
    script \in {PSC, PLSC} =>
        /\ pc # "StatisticsError"
        /\ Derived => \A p \in DOMAIN pitchers :
              Len(pitchers[p].FBVertApprAngles) < 2 => pitchers[p].FBnVAA.dev[1] = 0

-----------------------------------------------------------------------------
\* The batting aggregators on the outcomes of plate appearances.
OutcomeRow(batter, play_result, hit_type, runs) ==
    [HitBase EXCEPT !.Batter = batter, !.PlayResult = play_result,
                    !.TaggedHitType = hit_type, !.RunsScored = runs,
                    !.PitchCall = "InPlay"]

RowsHit ==
    { [OutcomeRow("b1", "Single", "LineDrive", "1") EXCEPT !.ExitSpeed = "4", !.Angle = "2"],
      OutcomeRow("b1", "HomeRun", "FlyBall", "2"),
      OutcomeRow("b1", "Double", "LineDrive", "0"),
      OutcomeRow("b2", "Triple", "FlyBall", "1"),
      OutcomeRow("b1", "Sacrifice", "Bunt", "1"),
      OutcomeRow("b1", "Sacrifice", "FlyBall", "1"),
      OutcomeRow("b1", "Sacrifice", "Popup", "0"),
      OutcomeRow("b1", "Sacrifice", "GroundBall", "1"),
      [OutcomeRow("b1", "Out", "GroundBall", "1") EXCEPT !.OutsOnPlay = "2"],
      OutcomeRow("b2", "Out", "FlyBall", "0"),
      OutcomeRow("b2", "Error", "GroundBall", "1"),
      OutcomeRow("b2", "FieldersChoice", "GroundBall", "1"),
      [HitBase EXCEPT !.Batter = "b2", !.KorBB = "Strikeout",
                      !.PitchCall = "StrikeSwinging"],
      [HitBase EXCEPT !.Batter = "b2", !.KorBB = "Walk", !.RunsScored = "1"],
      [HitBase EXCEPT !.Batter = "b2", !.PitchCall = "HitByPitch", !.RunsScored = "1"],
      [HitBase EXCEPT !.RunsScored = ""] }

NextHit ==
    \/ \E row \in RowsHit : HitRow(row) \/ RaiseOnHitRow(row)
    \/ AfterHitRows

SpecHit == InitBat /\ [][NextHit]_vars

\* The rows the batting loop has aggregated for batter b.
HitCounted(i) == parse_hit_row(script, data[i]).ok
HitRowsOf(b) == {i \in 1..Len(data) : HitCounted(i) /\ cell(script, data[i].Batter) = b}
HitCountOf(b, Holds(_)) == Cardinality({i \in HitRowsOf(b) : Holds(data[i])})

WellDefinedZero(metric) == metric[1] = 0 /\ metric[2] > 0

ZeroDenominators(st) ==
    LET on_base == st.AB + st.BB + st.HBP + st.SF
    IN /\ st.AB <= 0 => WellDefinedZero(st.AVG) /\ WellDefinedZero(st.SLG)
       /\ st.PA <= 0 => WellDefinedZero(st.BBpercent) /\ WellDefinedZero(st.Kpercent)
       /\ on_base <= 0 => WellDefinedZero(st.OBP) /\ WellDefinedZero(st.wOBA)
       /\ st.AB - st.K - st.HR + st.SF <= 0 => WellDefinedZero(st.BABIP)

\* C11: for every batter and whatever totals have been accumulated, the
\* derived batting metrics computed from them (printed by print_stats, stored
\* by print_hitting_stats and by statsConverterRecursive) are 0, and not a
\* division by zero, when their denominator is not positive.
C11_ZeroDenominators ==
    script \in BattingScripts =>
        \A b \in DOMAIN players :
            /\ ZeroDenominators(derived_batting(players[b]))
            /\ "AVG" \in DOMAIN players[b] => ZeroDenominators(players[b])

C11_Witness ==
    /\ script = PLSC /\ pc = "printed"
    /\ \E b, c \in DOMAIN players :
          /\ players[b].PA = 0 /\ players[b].AB = 0
          /\ WellDefinedZero(players[b].BBpercent) /\ WellDefinedZero(players[b].AVG)
          /\ WellDefinedZero(players[b].BABIP) /\ WellDefinedZero(players[b].wOBA)
          /\ players[c].PA > 0 /\ players[c].AB = 0 /\ players[c].BB > 0
          /\ WellDefinedZero(players[c].SLG) /\ players[c].OBP[1] > 0

-----------------------------------------------------------------------------
\* The files of csv_files that went through the whole try block.
Processed(f) ==
    ~read_csv_fails(f) /\ ~contains_aub_prc(f.rows) /\ ~file_stats(f.rows).raised

AppearsIn(p, f) == p \in DOMAIN file_stats(f.rows).pitchers

AdditiveCounters == DOMAIN InitialStats \ {"ERA", "FIP", "InningsPitched"}

RECURSIVE SumOverFiles(_, _, _)
SumOverFiles(p, k, i) ==
    IF i = 0 THEN 0
    ELSE SumOverFiles(p, k, i - 1)
         + (IF Processed(csv_files[i]) /\ AppearsIn(p, csv_files[i])
            THEN file_stats(csv_files[i].rows).pitchers[p][k] ELSE 0)

RECURSIVE PitchesInFiles(_, _)
PitchesInFiles(p, i) ==
    IF i = 0 THEN 0
    ELSE PitchesInFiles(p, i - 1)
         + (IF Processed(csv_files[i])
            THEN Cardinality({j \in 1..Len(csv_files[i].rows) :
                                 /\ ~skips_row(PPR, csv_files[i].rows[j])
                                 /\ csv_files[i].rows[j].Pitcher = p})
            ELSE 0)

WinsInFiles(p) ==
    Cardinality({i \in 1..Len(csv_files) :
                    /\ Processed(csv_files[i]) /\ AppearsIn(p, csv_files[i])
                    /\ file_stats(csv_files[i].rows).pitchers[p].Wins = 1})

\* C12: in process_all_csv_files, after any sequence of files and also after
\* the derived statistics are computed, every additive counter of a pitcher's
\* merged totals is the sum of that counter over the successfully processed
\* files in which the pitcher appears; merged Wins is the number of processed
\* files in which the pitcher was credited the win.
C12_MergedCountersAreSums ==
    script = PPR /\ pc \in {"files", "written"} =>
        /\ DOMAIN all_pitchers =
              {p \in {"p1", "p2"} : \E i \in 1..Len(csv_files) :
                    Processed(csv_files[i]) /\ AppearsIn(p, csv_files[i])}
        /\ \A p \in DOMAIN all_pitchers :
              /\ \A k \in AdditiveCounters :
                    all_pitchers[p][k] = SumOverFiles(p, k, Len(csv_files))
              /\ all_pitchers[p].TotalPitches = PitchesInFiles(p, Len(csv_files))
              /\ all_pitchers[p].Wins = WinsInFiles(p)

C12_Witness ==
    /\ script = PPR /\ pc = "written"
    /\ files_processed = 2 /\ files_skipped = 1
    /\ "p1" \in DOMAIN all_pitchers /\ "p2" \in DOMAIN all_pitchers
    /\ all_pitchers["p1"].Wins = 2 /\ all_pitchers["p1"].TotalPitches = 2
    /\ all_pitchers["p2"].Losses = 2

-----------------------------------------------------------------------------
DerivedBattingKeys ==
    {"AvgExitVelocity", "AvgLaunchAngle", "AVG", "BBpercent", "Kpercent", "OBP",
     "SLG", "OPS", "ISO", "BABIP", "wOBA"}

DerivedPitchingKeys == {"InningsPitched", "ERA", "FIP"}

\* Every derived key of the aggregate still holds the zero it was created with,
\* or does not exist yet.
NothingDerived(st, keys) == \A k \in keys \cap DOMAIN st : FracEq(st[k], Zero)

\* C13: while rows (in the directory variant, files) may still be processed,
\* no derived value has been written into any player's aggregate: the batting
\* loops have written no average and no rate, the pitching loops no innings,
\* ERA or FIP.
C13_DerivedOnlyAfterAllRows ==
    /\ pc = "hitting" =>
          \A b \in DOMAIN players : NothingDerived(players[b], DerivedBattingKeys)
    /\ pc = "rows" =>
          \A p \in DOMAIN pitchers : NothingDerived(pitchers[p], DerivedPitchingKeys)
    /\ pc = "files" =>
          \A p \in DOMAIN all_pitchers :
              NothingDerived(all_pitchers[p], DerivedPitchingKeys)

-----------------------------------------------------------------------------
PlayResultOf(row) == cell(script, row.PlayResult)
HitTypeOf(row) == cell(script, row.TaggedHitType)
RunsOf(row) == CellInt(row.RunsScored)

IsGroundBallDoublePlay(row) ==
    PlayResultOf(row) = "Out" /\ HitTypeOf(row) = "GroundBall" /\ CellInt(row.OutsOnPlay) = 2

CreditsPlay(row) ==
    PlayResultOf(row) \notin {"Error", "FieldersChoice"} /\ ~IsGroundBallDoublePlay(row)
CreditsSacrifice(row) == PlayResultOf(row) = "Sacrifice"
CreditsWalk(row) == cell(script, row.KorBB) = "Walk" /\ RunsOf(row) > 0
CreditsHitByPitch(row) == cell(script, row.PitchCall) = "HitByPitch" /\ RunsOf(row) > 0

Times(holds) == IF holds THEN 1 ELSE 0

\* RunsScored once per satisfied guard; the Sacrifice guard counts on its own
\* only when sacrifice_is_additive.
Credit(row, sacrifice_is_additive) ==
    RunsOf(row) * ( Times(CreditsPlay(row))
                    + Times(sacrifice_is_additive /\ CreditsSacrifice(row))
                    + Times(CreditsWalk(row))
                    + Times(CreditsHitByPitch(row)) )

RECURSIVE SumCredit(_, _, _)
SumCredit(b, i, sacrifice_is_additive) ==
    IF i = 0 THEN 0
    ELSE SumCredit(b, i - 1, sacrifice_is_additive)
         + (IF i \in HitRowsOf(b) THEN Credit(data[i], sacrifice_is_additive) ELSE 0)

\* C14 as stated: every batter's RBI is the sum over the batter's rows of
\* RunsScored once for each satisfied guard, the four guards (creditable play,
\* Sacrifice, walk with runs, hit-by-pitch with runs) being independent.
C14_FourAdditiveGuards ==
    script \in BattingScripts =>
        \A b \in DOMAIN players :
            players[b].RBI = SumCredit(b, Len(data), TRUE)

\* C14 as the code has it: every batter's RBI is the sum over the batter's
\* rows of RunsScored once for a creditable play (not Error, not
\* FieldersChoice, not a ground-ball double play), once more for a walk with
\* runs and once more for a hit-by-pitch with runs; a Sacrifice row is a
\* creditable play and is credited once, never twice.
C14_SacrificeCreditedOnce ==
    script \in BattingScripts =>
        \A b \in DOMAIN players :
            players[b].RBI = SumCredit(b, Len(data), FALSE)

C14_Witness ==
    /\ script \in BattingScripts /\ pc = "returned" /\ Len(data) = 3
    /\ \E i, j, k \in 1..3 :
          /\ data[i].Batter = "b1" /\ CreditsSacrifice(data[i]) /\ RunsOf(data[i]) = 1
          /\ data[j].Batter = "b1" /\ IsGroundBallDoublePlay(data[j]) /\ RunsOf(data[j]) = 1
          /\ data[k].Batter = "b2" /\ CreditsWalk(data[k]) /\ RunsOf(data[k]) = 1
    /\ players["b1"].RBI = 1 /\ players["b2"].RBI = 2

-----------------------------------------------------------------------------
\* The pitching row loop on files whose rows are the pitches of consecutive
\* plate appearances: PitchofPA counts from 1 within a plate appearance, the
\* Strikes and Balls cells hold the count before the pitch, and a plate
\* appearance goes on until a ball in play, a strikeout or a hit-by-pitch.
\* To keep the input set small a foul is drawn only on the first pitch or with
\* two strikes, and a hit-by-pitch only on the first pitch; a bunt fouled off
\* with two strikes is a strikeout.
\* The row that follows rows when pitcher m[1] and batter m[2] meet and the
\* pitch has outcome o, and whether such a row can follow.
pitch_after(rows, m, o) ==
    LET last == rows[Len(rows)]
        open == /\ Len(rows) > 0
                /\ last.PlayResult = "Undefined" /\ last.KorBB = "Undefined"
                /\ last.PitchCall # "HitByPitch"
        first == CHOOSE i \in 1..Len(rows) :
                    /\ rows[i].PitchofPA = "1"
                    /\ \A j \in (i + 1)..Len(rows) : rows[j].PitchofPA # "1"
        thrown == IF open THEN first..Len(rows) ELSE {}
        n == Cardinality(thrown) + 1
        called == Cardinality({i \in thrown :
                      rows[i].PitchCall \in {"StrikeCalled", "StrikeSwinging", "FoulBall"}})
        strikes == IF called > 2 THEN 2 ELSE called
        balls == Cardinality({i \in thrown : rows[i].PitchCall = "BallCalled"})
        text(k) == CHOOSE t \in DOMAIN IntText : IntText[t] = k
        ends == o \in {"buntfoul", "inplay", "strikeout", "hbp"}
    IN [allowed |->
            /\ open => m = <<last.Pitcher, last.Batter>>
            /\ n \in {IntText[t] : t \in DOMAIN IntText}
            /\ n = 5 => ends
            /\ o = "strike" => strikes < 2
            /\ o \in {"strikeout", "buntfoul"} => strikes = 2
            /\ o = "ball" => balls < 3
            /\ o = "foul" => n = 1 \/ strikes = 2
            /\ o = "hbp" => n = 1,
        row |->
            [BaseRow EXCEPT
                !.Pitcher = m[1], !.Batter = m[2],
                !.PitcherTeam = IF m[1] = "p1" THEN "AUB_TIG" ELSE "ALA_CRI",
                !.BatterTeam = IF m[1] = "p1" THEN "ALA_CRI" ELSE "AUB_TIG",
                !.PitchofPA = IF n \in {IntText[t] : t \in DOMAIN IntText}
                              THEN text(n) ELSE "",
                !.Strikes = text(strikes),
                !.Balls = IF balls <= 3 THEN text(balls) ELSE "3",
                !.PitchCall = CASE o = "strike" -> "StrikeCalled"
                                [] o = "strikeout" -> "StrikeSwinging"
                                [] o \in {"foul", "buntfoul"} -> "FoulBall"
                                [] o = "inplay" -> "InPlay"
                                [] o = "hbp" -> "HitByPitch"
                                [] OTHER -> "BallCalled",
                !.KorBB = IF o \in {"strikeout", "buntfoul"} THEN "Strikeout"
                          ELSE "Undefined",
                !.PlayResult = IF o = "inplay" THEN "Out" ELSE "Undefined",
                !.TaggedHitType = CASE o = "inplay" -> "FlyBall"
                                    [] o = "buntfoul" -> "Bunt"
                                    [] OTHER -> "Undefined"]]

\* One iteration of the row loop on the next pitch of the file.
PitchRow(m, o) ==
    LET row == pitch_after(data, m, o).row
    IN /\ pc = "rows"
       /\ Len(data) < MaxPitches
       /\ pitch_after(data, m, o).allowed
       /\ parse_row(script, row).ok
       /\ ~skips_row(script, row)
       /\ data' = Append(data, row)
       /\ SetAgg(aggregate_row(script, CurAgg, row, parse_row(script, row)))
       /\ UNCHANGED <<script, pc, dirVars, batVars>>

NextSeq ==
    \/ \E m \in {<<"p1", "b1">>, <<"p1", "b2">>},
          o \in {"strike", "ball", "foul", "buntfoul", "inplay", "strikeout", "hbp"} :
             PitchRow(m, o)
    \/ ReturnStats
    \/ ComputeStats

SpecSeq == InitPitch /\ [][NextSeq]_vars


-----------------------------------------------------------------------------
PitchNo(i) == CellInt(data[i].PitchofPA)

EndsPlateAppearance(row) ==
    row.PlayResult \in AtBatResults \/ row.KorBB \in {"Strikeout", "Walk"}

EndsInFourOrFewer(row) ==
    EndsPlateAppearance(row) /\ row.PlayResult # "Sacrifice" /\ CellInt(row.PitchofPA) <= 4

\* C15: for every pitcher, AtBatEfficiency is the number of the pitcher's plate
\* appearances that end on pitch four or earlier, by a ball in play, by a
\* strikeout or by a walk, a Sacrifice excepted.
C15_EveryShortPlateAppearance ==
    \A p \in DOMAIN pitchers :
        pitchers[p].AtBatEfficiency = CountOf(p, EndsInFourOrFewer)

-----------------------------------------------------------------------------
SamePair(i, j) ==
    data[i].Pitcher = data[j].Pitcher /\ data[i].Batter = data[j].Batter

\* The first pitch of the plate appearance row i belongs to.
StartOf(i) ==
    CHOOSE j \in 1..i :
        /\ SamePair(i, j) /\ PitchNo(j) = 1
        /\ \A k \in (j + 1)..i : ~(SamePair(i, k) /\ PitchNo(k) = 1)

FirstThreeOf(i) ==
    {j \in StartOf(i)..i : Counted(j) /\ SamePair(i, j) /\ PitchNo(j) \in 1..3}

CountsAsStrike(j) ==
    \/ data[j].PitchCall \in {"StrikeCalled", "StrikeSwinging", "InPlay"}
    \/ /\ data[j].PitchCall = "FoulBall"
       /\ \/ CellInt(data[j].Strikes) < 2
          \/ CellInt(data[j].Strikes) = 2 /\ data[j].TaggedHitType = "Bunt"

TwoOfFirstThree(i) ==
    PitchNo(i) = 3 /\ Cardinality({j \in FirstThreeOf(i) : CountsAsStrike(j)}) >= 2

\* C18: for every pitcher, First2of3StrikesOrInPlay is the number of third
\* pitches (rows with PitchofPA = 3, one per plate appearance) at which at
\* least two of the pitches 1..3 of that same plate appearance are called or
\* swinging strikes, balls in play, or fouls that count as a strike; pitches
\* of an earlier plate appearance of the same pitcher and batter are not
\* among them.
C18_TwoOfFirstThree ==
    \A p \in DOMAIN pitchers :
        pitchers[p].First2of3StrikesOrInPlay =
            Cardinality({i \in RowsOf(p) : TwoOfFirstThree(i)})

C18_Witness ==
    /\ Len(data) = 5
    /\ \A i \in 1..5 : data[i].Pitcher = "p1" /\ data[i].Batter = "b1"
    /\ PitchNo(1) = 1 /\ PitchNo(2) = 2 /\ CountsAsStrike(1) /\ CountsAsStrike(2)
    /\ PitchNo(3) = 1 /\ PitchNo(4) = 2 /\ PitchNo(5) = 3
    /\ \A i \in 3..5 : ~CountsAsStrike(i)
    /\ pitchers["p1"].First2of3StrikesOrInPlay = 0

-----------------------------------------------------------------------------
\* Row i of rows has no row of rows right before it with the same batter.
BatterChanges(rows, i) ==
    \A j \in rows :
        (j < i /\ \A k \in rows : k <= j \/ k >= i) => data[j].Batter # data[i].Batter

-----------------------------------------------------------------------------
IsFirstPitch(row) == CellInt(row.PitchofPA) = 1

IsFirstPitchStrike(row) ==
    IsFirstPitch(row)
    /\ row.PitchCall \in {"StrikeCalled", "StrikeSwinging", "FoulBall", "InPlay"}

IsFirstPitchBall(row) ==
    IsFirstPitch(row)
    /\ row.PitchCall \in {"BallCalled", "BallinDirt", "BallIntentional", "HitByPitch"}

\* C20: for every pitcher, FirstPitchStrikes is the number of the pitcher's
\* rows with PitchofPA = 1 and a call of StrikeCalled, StrikeSwinging, FoulBall
\* or InPlay, FirstPitchBalls the number with PitchofPA = 1 and a call of
\* BallCalled, BallinDirt, BallIntentional or HitByPitch; no row counts for
\* both, rows with another PitchofPA count for neither, and the two together
\* never exceed the number of first-pitch rows.
C20_FirstPitch ==
    \A p \in DOMAIN pitchers :
        /\ pitchers[p].FirstPitchStrikes = CountOf(p, IsFirstPitchStrike)
        /\ pitchers[p].FirstPitchBalls = CountOf(p, IsFirstPitchBall)
        /\ \A i \in RowsOf(p) : ~(IsFirstPitchStrike(data[i]) /\ IsFirstPitchBall(data[i]))
        /\ pitchers[p].FirstPitchStrikes + pitchers[p].FirstPitchBalls
              <= CountOf(p, IsFirstPitch)

C20_Witness ==
    /\ Len(data) = 5
    /\ pitchers["p1"].FirstPitchStrikes = 2
    /\ pitchers["p1"].FirstPitchBalls = 2
    /\ \E i, j \in 1..5 :
          /\ IsFirstPitch(data[i]) /\ data[i].PitchCall = "HitByPitch"
          /\ IsFirstPitch(data[j]) /\ data[j].PitchCall = "FoulBall"
    /\ \E i \in 1..5 : PitchNo(i) = 2 /\ data[i].PitchCall = "StrikeCalled"


-----------------------------------------------------------------------------
IsSacrificeBunt(row) == PlayResultOf(row) = "Sacrifice" /\ HitTypeOf(row) = "Bunt"

IsSacrificeFly(row) ==
    PlayResultOf(row) = "Sacrifice" /\ HitTypeOf(row) \in {"FlyBall", "Popup"}

\* C16: in every batting aggregator and for every batter, SH is the number of
\* the batter's Sacrifice rows hit as a Bunt and SF the number of those hit as
\* a FlyBall or Popup; a Sacrifice with any other hit type counts for neither.
C16_SacrificeByHitType ==
    script \in BattingScripts =>
        \A b \in DOMAIN players :
            /\ players[b].SH = HitCountOf(b, IsSacrificeBunt)
            /\ players[b].SF = HitCountOf(b, IsSacrificeFly)

-----------------------------------------------------------------------------
IsBattingStrikeout(row) == cell(script, row.KorBB) = "Strikeout"
IsBattingWalk(row) == cell(script, row.KorBB) = "Walk"
IsHitByPitch(row) == cell(script, row.PitchCall) = "HitByPitch"
IsAtBatResult(row) ==
    PlayResultOf(row) \in
        {"Single", "Double", "Triple", "HomeRun", "Error", "FieldersChoice", "Out"}

\* C17: for every batter, K is the number of strikeout rows, BB the number of
\* walk rows and HBP the number of hit-by-pitch rows; AB is one per strikeout
\* row plus one per row whose PlayResult is Single, Double, Triple, HomeRun,
\* Error, FieldersChoice or Out, so that walks, hit-by-pitches and Sacrifices
\* add nothing to AB.
C17_StrikeoutsWalksAtBats ==
    script \in BattingScripts =>
        \A b \in DOMAIN players :
            /\ players[b].K = HitCountOf(b, IsBattingStrikeout)
            /\ players[b].BB = HitCountOf(b, IsBattingWalk)
            /\ players[b].HBP = HitCountOf(b, IsHitByPitch)
            /\ players[b].AB =
                  HitCountOf(b, IsBattingStrikeout) + HitCountOf(b, IsAtBatResult)

C17_Witness ==
    /\ script \in BattingScripts /\ Len(data) = 3
    /\ \E i, j, k \in 1..3 :
          /\ data[i].Batter = "b2" /\ IsBattingStrikeout(data[i])
          /\ data[j].Batter = "b2" /\ IsBattingWalk(data[j])
          /\ data[k].Batter = "b1" /\ PlayResultOf(data[k]) = "Sacrifice"
    /\ players["b2"].K = 1 /\ players["b2"].BB = 1 /\ players["b2"].AB = 1
    /\ players["b1"].AB = 0


-----------------------------------------------------------------------------
\* The pitching row loop on pitches at and around the edges of the strike zone,
\* and on pitches in the middle of the zone with each kind of pitch call: a
\* swinging third strike, a foul with two strikes, a hit batter, and a call
\* that none of the branches names.
RowsZone ==
    { [BaseRow EXCEPT !.PlateLocSide = l[1], !.PlateLocHeight = l[2]] :
        l \in { <<"-0.7085", "1.7">>, <<"0", "2">>, <<"0", "2.2666666666666666">>,
                <<"0", "2.5">>, <<"0", "3">>, <<"0.7085", "3.4">>,
                <<"1", "2.5">>, <<"0", "3.5">>, <<"", "">> } }
    \cup { StrikeoutRow, FoulRow("2", "Undefined"), HitByPitchRow,
           [BaseRow EXCEPT !.PitchCall = "FoulBallNotFieldable"] }

NextZone ==
    \/ \E row \in RowsZone : AggregateRow(row) \/ RaiseOnRow(row)
    \/ ReturnStats
    \/ ComputeStats

SpecZone == InitPitch /\ [][NextZone]_vars

LocationOf(t) == IF t \in DOMAIN PlateText THEN PlateText[t] ELSE Zero

Between(lo, x, hi) == lo[1] * x[2] <= x[1] * lo[2] /\ x[1] * hi[2] <= hi[1] * x[2]

InRectangle(row) ==
    /\ Between(<<-7085, 10000>>, LocationOf(row.PlateLocSide), <<7085, 10000>>)
    /\ Between(<<17, 10>>, LocationOf(row.PlateLocHeight), <<34, 10>>)

OutOfRectangle(row) == ~InRectangle(row)

-----------------------------------------------------------------------------
IsSingle(row) == PlayResultOf(row) = "Single"
IsDouble(row) == PlayResultOf(row) = "Double"
IsTriple(row) == PlayResultOf(row) = "Triple"
IsHomer(row) == PlayResultOf(row) = "HomeRun"

\* C22: for every batter the four hit tallies are the numbers of the batter's
\* Single, Double, Triple and HomeRun rows, H is their sum and TB is
\* 1B + 2 * 2B + 3 * 3B + 4 * HR; rows with another play result change neither.
C22_HitsAndTotalBases ==
    script \in BattingScripts =>
        \A b \in DOMAIN players :
            /\ players[b].oneB = HitCountOf(b, IsSingle)
            /\ players[b].twoB = HitCountOf(b, IsDouble)
            /\ players[b].threeB = HitCountOf(b, IsTriple)
            /\ players[b].HR = HitCountOf(b, IsHomer)
            /\ players[b].H = players[b].oneB + players[b].twoB
                                 + players[b].threeB + players[b].HR
            /\ players[b].TB = players[b].oneB + 2 * players[b].twoB
                                  + 3 * players[b].threeB + 4 * players[b].HR

C22_Witness ==
    /\ script \in BattingScripts /\ Len(data) = 3
    /\ {"b1", "b2"} \subseteq DOMAIN players
    /\ players["b1"].twoB = 1 /\ players["b1"].HR = 1
    /\ players["b1"].H = 2 /\ players["b1"].TB = 6
    /\ players["b2"].threeB = 1 /\ players["b2"].H = 1 /\ players["b2"].TB = 3


-----------------------------------------------------------------------------
HasPracticePitcher(f) ==
    f.kind = "ok" /\ \E j \in 1..Len(f.rows) : f.rows[j].PitcherTeam = "AUB_PRC"

\* The merged totals of the files before position i, the files with a
\* practice pitcher and the files that do not go through left out.
RECURSIVE MergedWithout(_)
MergedWithout(i) ==
    IF i = 0 THEN EmptyMap
    ELSE IF HasPracticePitcher(csv_files[i]) \/ csv_files[i].kind # "ok"
            \/ file_stats(csv_files[i].rows).raised
         THEN MergedWithout(i - 1)
         ELSE merge_pitchers(MergedWithout(i - 1), file_stats(csv_files[i].rows).pitchers)

\* C23: in process_all_csv_files, a readable file with PitcherTeam = AUB_PRC
\* in any of its rows is counted as excluded and as nothing else, and the
\* merged totals of every pitcher are what they would be without that file.
C23_PracticeFileExcluded ==
    script = PPR /\ pc = "files" =>
        /\ files_excluded =
              Cardinality({i \in 1..Len(csv_files) : HasPracticePitcher(csv_files[i])})
        /\ files_processed + files_skipped =
              Cardinality({i \in 1..Len(csv_files) : ~HasPracticePitcher(csv_files[i])})
        /\ all_pitchers = MergedWithout(Len(csv_files))

C23_Witness ==
    /\ script = PPR /\ pc = "files" /\ Len(csv_files) = 3
    /\ csv_files[2].name = "practice"
    /\ files_excluded = 1 /\ files_processed = 2
    /\ {"p1", "p2"} \subseteq DOMAIN all_pitchers
    /\ all_pitchers["p1"].TotalPitches = 3 /\ all_pitchers["p2"].TotalPitches = 1


-----------------------------------------------------------------------------
\* Some row of the file has a cell that PitchingProcessRecursive cannot convert.
HasBadCell(f) == \E j \in 1..Len(f.rows) : ~parse_row(PPR, f.rows[j]).ok

FailsInTry(f) == f.kind = "ok" /\ ~HasPracticePitcher(f) /\ HasBadCell(f)

\* The merged totals of the files before position i, each file merged whole
\* or not at all.
RECURSIVE MergedWhole(_)
MergedWhole(i) ==
    IF i = 0 THEN EmptyMap
    ELSE IF csv_files[i].kind # "ok" \/ HasPracticePitcher(csv_files[i])
            \/ HasBadCell(csv_files[i])
         THEN MergedWhole(i - 1)
         ELSE merge_pitchers(MergedWhole(i - 1), file_stats(csv_files[i].rows).pitchers)

\* C27: in process_all_csv_files a file whose processing raises is counted as
\* skipped and contributes nothing to the merged totals of any pitcher, and
\* processed, skipped and excluded files add up to the files found, during
\* and after the loop.
C27_MergeIsAtomic ==
    script = PPR /\ pc \in {"files", "written", "nooutput"} =>
        /\ files_processed + files_skipped + files_excluded = Len(csv_files)
        /\ files_skipped =
              Cardinality({i \in 1..Len(csv_files) :
                              csv_files[i].kind # "ok" \/ FailsInTry(csv_files[i])})
        /\ pc # "written" => all_pitchers = MergedWhole(Len(csv_files))
        /\ pc = "written" =>
              all_pitchers = calculate_derived_stats(MergedWhole(Len(csv_files)))

C27_Witness ==
    /\ script = PPR /\ pc = "written" /\ Len(csv_files) = 3
    /\ csv_files[1].name = "k_hr" /\ csv_files[2].name = "badcell"
    /\ csv_files[3].name = "bb_out"
    /\ files_processed = 2 /\ files_skipped = 1 /\ files_excluded = 0
    /\ all_pitchers["p1"].Strikeouts = 1 /\ all_pitchers["p1"].TotalPitches = 4

-----------------------------------------------------------------------------
\* The Team column of the recursive writers.

\* The two entries of the team-name table that the model's rows use.
team_names == [AUB_TIG |-> "Auburn", ALA_CRI |-> "Alabama"]

\* team_names.get(code, code)
team_name(code) == IF code \in DOMAIN team_names THEN team_names[code] ELSE code

\* The Team cell of the row that write_stats_to_csv hands to the DictWriter.
\* PitchingProcessRecursive builds the row with 'Team': team_name.
\* statsConverterRecursive builds {'Player': batter, 'Team': team_name,
\* **cleaned_stats}: cleaned_stats still holds the key Team, and in a dict
\* display the later key wins.
csv_team(s, stats) ==
    IF s = SCR
    THEN (stats @@ [Team |-> team_name(stats.Team)]).Team
    ELSE team_name(IF "Team" \in DOMAIN stats THEN stats.Team ELSE "Unknown")

\* C24: in the CSV written by the recursive batting writer and by the recursive
\* pitching writer, the Team cell of every player is the display name of the
\* team-name table when the player's team code is a key of the table, and the
\* code itself otherwise.
C24_TeamColumn ==
    /\ script = SCR /\ pc = "saved" =>
          \A b \in DOMAIN players :
              csv_team(SCR, players[b]) =
                  IF players[b].Team \in DOMAIN team_names
                  THEN team_names[players[b].Team] ELSE players[b].Team
    /\ script = PPR /\ pc = "written" =>
          \A p \in DOMAIN all_pitchers :
              csv_team(PPR, all_pitchers[p]) =
                  IF all_pitchers[p].Team \in DOMAIN team_names
                  THEN team_names[all_pitchers[p].Team] ELSE all_pitchers[p].Team

-----------------------------------------------------------------------------
\* C25: in every batting aggregator, the RBI that one processed row adds to a
\* batter never exceeds the row's RunsScored; a walk or hit-by-pitch row with
\* RunsScored = r whose PlayResult is neither Error nor FieldersChoice adds
\* exactly r.
C25_RowCreditAtMostRuns ==
    [][ pc = "hitting" /\ pc' = "hitting" /\ Len(data') = Len(data) + 1 =>
            \A b \in DOMAIN players' :
                players'[b].RBI - (IF b \in DOMAIN players THEN players[b].RBI ELSE 0)
                    <= RunsOf(data'[Len(data')]) ]_vars

-----------------------------------------------------------------------------
\* The stats a report of PitchingProcessRecursive shows are computed from the
\* totals: innings are a third of the outs, and ERA and FIP follow from them.
ComputedFromTotals(st) == IPIsOutsOverThree(st) /\ ERAFormula(st) /\ FIPFormula(st)

\* C26: in both run modes of PitchingProcessRecursive, what a report shows of
\* InningsPitched, ERA and FIP is computed from the final totals: the printed
\* report and the saved CSV of the single-file mode, and the CSV of the
\* directory mode, show no InningsPitched of 0 for a pitcher with an out.
C26_ReportsAreDerived ==
    script = PPR =>
        /\ pc \in {"printed", "saved"} =>
              \A p \in DOMAIN pitchers : ComputedFromTotals(pitchers[p])
        /\ pc = "written" =>
              \A p \in DOMAIN all_pitchers : ComputedFromTotals(all_pitchers[p])

-----------------------------------------------------------------------------
\* The pitcher has two or more fastballs, all with the same approach angle.
EqualFastballs(st) ==
    /\ Len(st.FBVertApprAngles) >= 2
    /\ \A i \in 1..Len(st.FBVertApprAngles) : st.FBVertApprAngles[i] = st.FBVertApprAngles[1]

\* C28: in pitchingStatsConverter and playerStatsConverter, when a pitcher has
\* two or more fastballs that all have the same vertical approach angle, the
\* aggregation ends without a division by zero.
C28_EqualAnglesDoNotRaise ==
    (script \in {PSC, PLSC} /\ \E p \in DOMAIN pitchers : EqualFastballs(pitchers[p]))
        => pc # "ZeroDivisionError"

-----------------------------------------------------------------------------
PitchCallSum(st) == st.Strikes + st.Balls + st.HitBatters + st.FoulsAfter2Strikes

\* C29: after any row sequence, every pitcher's TotalPitches is the number of
\* the pitcher's aggregated rows, and Strikes + Balls + HitBatters +
\* FoulsAfter2Strikes is at most TotalPitches: a row adds 1 to TotalPitches and
\* to at most one of the four pitch-call counters.
C29_PitchCallCounters ==
    \A p \in DOMAIN pitchers :
        /\ pitchers[p].TotalPitches = Cardinality(RowsOf(p))
        /\ PitchCallSum(pitchers[p]) <= pitchers[p].TotalPitches

C29_Witness ==
    /\ pc = "rows" /\ Len(data) = 3
    /\ \E i, j, k \in 1..3 :
          /\ data[i] = FoulRow("2", "Undefined")
          /\ data[j] = HitByPitchRow
          /\ data[k].PitchCall = "FoulBallNotFieldable"
    /\ pitchers["p1"].TotalPitches = 3
    /\ pitchers["p1"].FoulsAfter2Strikes = 1 /\ pitchers["p1"].HitBatters = 1
    /\ pitchers["p1"].Strikes = 0 /\ pitchers["p1"].Balls = 0

-----------------------------------------------------------------------------
\* a <= b for fractions with positive denominators.
FracLe(a, b) == a[1] * b[2] <= b[1] * a[2]

\* C30: after any row sequence, every batter has H <= AB, H <= TB <= 4 * H and
\* K + HR <= AB; the BABIP denominator AB - K - HR + SF is not negative, and
\* once the rates are computed AVG is in [0, 1], SLG in [0, 4] and ISO is not
\* negative.
C30_BattingBounds ==
    script \in BattingScripts =>
        \A b \in DOMAIN players :
            LET st == players[b]
            IN /\ st.H <= st.AB
               /\ st.H <= st.TB /\ st.TB <= 4 * st.H
               /\ st.K + st.HR <= st.AB
               /\ st.AB - st.K - st.HR + st.SF >= 0
               /\ "AVG" \in DOMAIN st =>
                     /\ FracLe(Zero, st.AVG) /\ FracLe(st.AVG, <<1, 1>>)
                     /\ FracLe(Zero, st.SLG) /\ FracLe(st.SLG, <<4, 1>>)
                     /\ FracLe(Zero, st.ISO)

C30_Witness ==
    /\ script \in BattingScripts /\ Len(data) = 3
    /\ "b2" \in DOMAIN players /\ "AVG" \in DOMAIN players["b2"]
    /\ \E i, j, k \in 1..3 :
          /\ IsBattingStrikeout(data[i])
          /\ PlayResultOf(data[j]) = "Triple"
          /\ PlayResultOf(data[k]) = "Out"
    /\ players["b2"].AB = 3 /\ players["b2"].H = 1 /\ players["b2"].TB = 3
    /\ players["b2"].K = 1
    /\ FracEq(players["b2"].AVG, <<1, 3>>) /\ FracEq(players["b2"].SLG, <<1, 1>>)
    /\ FracEq(players["b2"].ISO, <<2, 3>>)

====
